---------------------------- MODULE Spec2Model ----------------------------
(***************************************************************************)
(* Resumify: resume parsing, job-requirement parsing and candidate/job     *)
(* scoring (Backend/app/services/cv_parser.py, nlp_service.py and          *)
(* Backend/backup/app/services/cv_analyzer.py).                            *)
(*                                                                         *)
(* Strings are read one character at a time, so that the regular           *)
(* expressions and substring tests of the code are computed character by   *)
(* character.  Floats are exact rationals <<numerator, denominator>>;      *)
(* values the code rounds to two decimals are integers in hundredths.      *)
(***************************************************************************)
EXTENDS Integers, Sequences, FiniteSets, TLC

VARIABLES
    \* CVParser.parse_cv_file
    file_path,        \* the document handed in: suffix and content
    parse_pc,         \* "start", "extracted", "done"
    raw_text,         \* the local raw_text of parse_cv_file
    parse_return,     \* the returned record, or NoValue
    parse_outcome,    \* "none", "returned", "raised"
    parse_exc,        \* history: the exception raised inside the try block, if any
    \* CVAnalyzer.analyze_candidates_for_job
    candidates,       \* the batch
    job_posting,      \* the job
    custom_weights,   \* None, or the caller's weights
    batch_pc,         \* "loop", "done", "summarized"
    next_candidate,   \* index of the candidate the for loop takes next
    results,          \* the local results
    batch_outcome,    \* "none", "returned", "raised"
    statistics,       \* what get_analysis_statistics returned for results, or NoValue
    \* CVAnalyzer._analyze_experience_match
    exp_years,        \* candidate_info['total_experience_years'], in hundredths
    exp_min,          \* job_requirements['min_experience_years']
    exp_max,          \* job_requirements.get('max_experience_years')
    exp_pc,           \* "idle", "call", "done"
    exp_result,       \* the returned dict, or NoValue
    \* NLPService._is_skill_mentioned
    mention_text,     \* the text searched
    mention_skill,    \* the skill looked for
    mention_pc,       \* "idle", "call", "done"
    mention_result,   \* the returned bool, or NoValue
    \* NLPService.parse_job_requirements
    req_description,  \* job_description
    req_pc,           \* "idle", "call", "done"
    req_result,       \* the returned ParsedJobRequirements, or NoValue
    \* CVParser.extract_candidate_name
    name_text,        \* text
    name_nlp,         \* self.nlp: absent, raising, or the PERSON entities it finds
    name_pc,          \* "idle", "start", "ner", "lines", "email", "done"
    name_result,      \* the returned name, or NoValue
    name_source,      \* history: what returned: "blank", "ner", "lines", "email", "none"
    name_outcome,     \* "none", "returned", "raised"
    \* parsing one resume text and scoring the record against a job
    score_text,       \* the text of the resume
    score_candidate,  \* the candidate record, or NoValue before it is parsed
    score_job,        \* the job posting
    score_pc,         \* "idle", "parse", "analyze", "insights", "done"
    score_analysis,   \* the four analyses, or NoValue
    score_result,     \* what _analyze_single_candidate returned, or NoValue
    \* the while loops of CVParser._extract_education and _extract_work_experience
    walk_kind,        \* "idle", "education", "work"
    walk_lines,       \* section_lines
    walk_orgs,        \* organizations: the ORG entities of the recognizer
    walk_now,         \* datetime.now().year
    walk_i,           \* i, counted from 1
    walk_entries,     \* the local education / experience
    walk_pc,          \* "loop", "done"
    walk_steps,       \* history: the iterations of the while loop so far
    \* CVAnalyzer._extract_job_keywords
    kw_description,   \* job_description, as the caller passes it
    kw_pc,            \* "idle", "call", "done"
    kw_keywords,      \* the returned list, or NoValue
    \* NLPService._extract_experience_years
    yrs_text,         \* text
    yrs_pc,           \* "idle", "call", "done"
    yrs_result,       \* the returned (min_years, max_years), or NoValue
    \* state shared by all calls
    analyzer_default_weights,   \* CVAnalyzer.default_weights
    taxonomy          \* nlp_service.all_technical_skills

parseVars == <<file_path, parse_pc, raw_text, parse_return, parse_outcome, parse_exc>>

batchVars ==
    <<candidates, job_posting, custom_weights, batch_pc, next_candidate, results,
      batch_outcome, statistics>>

expVars == <<exp_years, exp_min, exp_max, exp_pc, exp_result>>

mentionVars == <<mention_text, mention_skill, mention_pc, mention_result>>

reqVars == <<req_description, req_pc, req_result>>

nameVars == <<name_text, name_nlp, name_pc, name_result, name_source, name_outcome>>

scoreVars ==
    <<score_text, score_candidate, score_job, score_pc, score_analysis, score_result>>

sharedVars == <<analyzer_default_weights, taxonomy>>

walkVars ==
    <<walk_kind, walk_lines, walk_orgs, walk_now, walk_i, walk_entries, walk_pc, walk_steps>>

keywordVars == <<kw_description, kw_pc, kw_keywords>>

yearsVars == <<yrs_text, yrs_pc, yrs_result>>

\* the variables of the calls modelled last
laterVars == <<walkVars, keywordVars, yearsVars>>

vars ==
    <<parseVars, batchVars, expVars, mentionVars, reqVars, nameVars, scoreVars, sharedVars,
      laterVars>>

-----------------------------------------------------------------------------
(* Python values the model needs names for *)

NoValue == [none |-> TRUE]          \* Python's None

EmptyList == <<>>                   \* []
EmptyDict == <<>>                   \* {}

\* Optional values: None, or a value
None == [some |-> FALSE, v |-> 0]
Some(x) == [some |-> TRUE, v |-> x]
\* the truth value Python gives an Optional[int]
Truthy(o) == o.some /\ o.v # 0

\* an exception: its class and its str(e)
Exc(type, msg) == [type |-> type, msg |-> msg]
NoExc == [type |-> "", msg |-> ""]

\* a call's outcome: a value, or an exception
Ok(v) == [ok |-> TRUE, val |-> v]
Raise(e) == [ok |-> FALSE, err |-> e]

-----------------------------------------------------------------------------
(* Characters and strings *)
(* A string is a TLA+ string; TLC evaluates Len, Head, Tail, SubSeq and \o  *)
(* on strings, a character being a string of length one.                   *)

Max(a, b) == IF a >= b THEN a ELSE b
Min(a, b) == IF a <= b THEN a ELSE b

Range(f) == {f[i] : i \in DOMAIN f}

\* s[i], 1-based
CharAt(s, i) == SubSeq(s, i, i)

Whitespace == {" ", "\n", "\t"}
UpperLetters == "ABCDEFGHIJKLMNOPQRSTUVWXYZ"
LowerLetters == "abcdefghijklmnopqrstuvwxyz"
Chars(s) == {CharAt(s, i) : i \in 1..Len(s)}
Digits == Chars("0123456789")
Letters == Chars(UpperLetters) \cup Chars(LowerLetters)
\* the class \w of Python's re
WordChars == Letters \cup Digits \cup {"_"}

LowerChar(c) ==
    IF c \in Chars(UpperLetters)
    THEN CharAt(LowerLetters, CHOOSE i \in 1..26 : CharAt(UpperLetters, i) = c)
    ELSE c

\* str.lower()
RECURSIVE Lower(_)
Lower(s) == IF s = "" THEN "" ELSE LowerChar(Head(s)) \o Lower(Tail(s))

RECURSIVE LStrip(_)
LStrip(s) == IF s # "" /\ Head(s) \in Whitespace THEN LStrip(Tail(s)) ELSE s

RECURSIVE RStrip(_)
RStrip(s) ==
    IF s # "" /\ CharAt(s, Len(s)) \in Whitespace
    THEN RStrip(SubSeq(s, 1, Len(s) - 1))
    ELSE s

\* str.strip()
Strip(s) == RStrip(LStrip(s))

\* sep.join(parts)
RECURSIVE Join(_, _)
Join(parts, sep) ==
    IF parts = <<>> THEN ""
    ELSE IF Len(parts) = 1 THEN parts[1]
    ELSE parts[1] \o sep \o Join(Tail(parts), sep)

\* needle occurs in text at position i
OccursAt(needle, text, i) ==
    /\ i >= 1
    /\ i + Len(needle) - 1 <= Len(text)
    /\ SubSeq(text, i, i + Len(needle) - 1) = needle

\* needle in text
IsSubstring(needle, text) == \E i \in 1..(Len(text) + 1) : OccursAt(needle, text, i)

\* \b between text[p] and text[p + 1], for p in 0..Len(text)
Boundary(text, p) ==
    LET before == p >= 1 /\ p <= Len(text) /\ CharAt(text, p) \in WordChars
        after == p + 1 >= 1 /\ p + 1 <= Len(text) /\ CharAt(text, p + 1) \in WordChars
    IN  before # after

\* the last index of the run of characters of the class that starts at i
\* (i - 1 when text[i] is not in the class)
RECURSIVE RunEnd(_, _, _)
RunEnd(text, i, class) ==
    IF i <= Len(text) /\ CharAt(text, i) \in class THEN RunEnd(text, i + 1, class) ELSE i - 1

\* the elements of a sequence without repetition, in order of first occurrence
RECURSIVE Dedup(_)
Dedup(seq) ==
    IF seq = <<>> THEN <<>>
    ELSE LET rest == Dedup(SubSeq(seq, 1, Len(seq) - 1))
             last == seq[Len(seq)]
         IN  IF last \in Range(rest) THEN rest ELSE Append(rest, last)

\* seq.count(x)
Count(seq, x) == Cardinality({i \in DOMAIN seq : seq[i] = x})

-----------------------------------------------------------------------------
(* Numbers: a float is the exact rational <<n, d>>, d > 0 *)

RECURSIVE Gcd(_, _)
Gcd(a, b) == IF b = 0 THEN a ELSE Gcd(b, a % b)

\* n / d in lowest terms
Rat(n, d) ==
    LET g == Gcd(IF n < 0 THEN -n ELSE n, d)
    IN  <<n \div g, d \div g>>
RInt(n) == <<n, 1>>
RAdd(a, b) == Rat(a[1] * b[2] + b[1] * a[2], a[2] * b[2])
RMul(a, b) == Rat(a[1] * b[1], a[2] * b[2])
RLe(a, b) == a[1] * b[2] <= b[1] * a[2]
RMax(a, b) == IF RLe(b, a) THEN a ELSE b
RMin(a, b) == IF RLe(a, b) THEN a ELSE b

\* the integer nearest to n / d, ties to the even one (Python's round)
RoundHalfEven(n, d) ==
    LET q == n \div d
        r == n % d
    IN  IF 2 * r < d THEN q
        ELSE IF 2 * r > d THEN q + 1
        ELSE IF q % 2 = 0 THEN q ELSE q + 1

\* round(x, 2), in hundredths.  The program rounds a binary floating-point
\* number, so a value that is an exact tie in the third decimal may go either
\* way there; the pools below are chosen so that no score is such a tie
Round2(x) == RoundHalfEven(x[1] * 100, x[2])

\* the number printed by f"{x:.0f}"
Round0(x) == RoundHalfEven(x[1], x[2])

-----------------------------------------------------------------------------
(* Input pools of the parsing model *)

txt_sql == "5 years of experience in sql"
txt_blank == " \n"
txt_padded == " Jane Doe\n"

\* document contents: unreadable ones, and readable ones as pages (pdf) or
\* paragraphs and table rows (docx)
ContentPool ==
    {[kind |-> "zero_length", units |-> <<>>, tables |-> <<>>],
     [kind |-> "corrupt", units |-> <<>>, tables |-> <<>>],
     [kind |-> "readable", units |-> <<>>, tables |-> <<>>],
     [kind |-> "readable", units |-> <<txt_blank>>, tables |-> <<>>],
     [kind |-> "readable", units |-> <<txt_sql>>, tables |-> <<>>],
     [kind |-> "readable", units |-> <<txt_padded, txt_sql>>, tables |-> <<>>],
     [kind |-> "readable", units |-> <<txt_blank>>,
      tables |-> << <<txt_padded, txt_blank, txt_sql>>, <<txt_blank>> >>]}

\* documents: a suffix and a content
FilePool ==
    [suffix : {".pdf", ".PDF", ".doc", ".docx", ".DOCX", ".txt", ""},
     content : ContentPool]

\* results of the field extractors that are inputs of ParseStep
ParsedFieldsPool ==
    {[personal_info |-> EmptyDict, education |-> EmptyList, work_experience |-> EmptyList,
      skills |-> [technical |-> EmptyList, soft |-> EmptyList],
      certifications |-> EmptyList, languages |-> EmptyList,
      total_experience_years |-> 0],
     [personal_info |-> [email |-> "jane@x.com"],
      education |-> <<[degree |-> "Degree not specified", institution |-> "MIT", year |-> 2019]>>,
      work_experience |-> EmptyList,
      skills |-> [technical |-> <<"sql">>, soft |-> EmptyList],
      certifications |-> EmptyList,
      languages |-> <<[language |-> "English", proficiency |-> "Native/Fluent"]>>,
      total_experience_years |-> 500]}

\* what may escape _parse_text_content: nothing, or an exception
ParseFaults ==
    {[raised |-> FALSE, err |-> NoExc],
     [raised |-> TRUE, err |-> Exc("TypeError", "expected string or bytes-like object")]}

-----------------------------------------------------------------------------
(* Input pools of the scoring model *)

\* a dict entry of candidate.education
EduDict(degree, institution) ==
    [kind |-> "dict", degree_null |-> FALSE, degree |-> degree,
     institution |-> institution, text |-> ""]

\* the resume of Scenario A
cand_jane ==
    [id |-> 1,
     skills |-> [kind |-> "dict", technical |-> <<"Python", "React">>,
                 soft |-> <<"Teamwork">>],
     education |-> <<EduDict("BSc Computer Science", "MIT")>>,
     total_experience_years |-> 500,
     raw_text |-> "Jane Doe\njane@x.com\n5 years of experience in Python and React"]

\* a candidate whose skills column holds a list instead of a dict
cand_list_skills ==
    [id |-> 2,
     skills |-> [kind |-> "list", technical |-> <<"sql">>, soft |-> <<>>],
     education |-> <<>>,
     total_experience_years |-> 200,
     raw_text |-> "sql and AWS"]

\* a candidate with an education entry whose degree is null
cand_null_degree ==
    [id |-> 3,
     skills |-> [kind |-> "none", technical |-> <<>>, soft |-> <<>>],
     education |-> <<[kind |-> "dict", degree_null |-> TRUE, degree |-> "",
                      institution |-> "Oxford", text |-> ""]>>,
     total_experience_years |-> 0,
     raw_text |-> "node.js"]

\* a candidate just below the shortlisting threshold of job_mba
cand_mba ==
    [id |-> 4,
     skills |-> [kind |-> "dict", technical |-> <<>>, soft |-> <<"Communication">>],
     education |-> <<EduDict("MBA", "INSEAD"),
                     [kind |-> "str", degree_null |-> FALSE, degree |-> "",
                      institution |-> "", text |-> "Diploma"]>>,
     total_experience_years |-> 449,
     raw_text |-> "MBA, 4 years in sales"]

CandidatePool == {cand_jane, cand_list_skills, cand_null_degree, cand_mba}

\* the job of Scenario A
job_scenario_a ==
    [id |-> 9, title |-> "Developer",
     description |-> "Python and React developer",
     required_skills |-> <<"python", "react">>,
     preferred_skills |-> <<>>,
     education_requirements |-> <<>>,
     soft_skills |-> <<>>,
     min_experience_years |-> Some(3),
     max_experience_years |-> None]

job_sql ==
    [id |-> 8, title |-> "Engineer",
     description |-> "sql, AWS and node.js required; sql is a must",
     required_skills |-> <<"SQL">>,
     preferred_skills |-> <<"aws">>,
     education_requirements |-> <<"Bachelor">>,
     soft_skills |-> <<"teamwork", "leadership">>,
     min_experience_years |-> Some(2),
     max_experience_years |-> Some(4)]

job_mba ==
    [id |-> 7, title |-> "Manager",
     description |-> "",
     required_skills |-> <<>>,
     preferred_skills |-> <<>>,
     education_requirements |-> <<"MBA", "PhD", "CPA">>,
     soft_skills |-> <<"communication">>,
     min_experience_years |-> Some(7),
     max_experience_years |-> None]

JobPool == {job_scenario_a, job_sql, job_mba}

\* custom_weights: None, a dict of four weights that sum to more than 1, a
\* dict of one weight
WeightPool ==
    {None,
     Some([skills |-> RInt(1), experience |-> RInt(1), education |-> RInt(1),
           soft_skills |-> RInt(1)]),
     Some([skills |-> Rat(1, 2)])}

\* the measured processing_time_ms
ProcessingTimes == {0, 12}

\* the longest batch
MaxBatch == 2

BatchPool == UNION {[1..n -> CandidatePool] : n \in 0..MaxBatch}

-----------------------------------------------------------------------------
(* CVParser.parse_cv_file and the text extraction it calls *)

\* Path(file_path).suffix.lower()
SuffixLower(suffix) ==
    CASE suffix = ".PDF" -> ".pdf"
      [] suffix = ".DOCX" -> ".docx"
      [] OTHER -> suffix

\* _extract_from_pdf: the pages' texts, each followed by a newline, stripped;
\* PyPDF2 raises on a file it cannot read, and the except clause re-raises
ExtractFromPdf(content) ==
    IF content.kind = "zero_length" THEN Raise(Exc("EmptyFileError", "Cannot read an empty file"))
    ELSE IF content.kind = "corrupt" THEN Raise(Exc("PdfReadError", "EOF marker not found"))
    ELSE LET RECURSIVE Pages(_)
             Pages(ps) == IF ps = <<>> THEN ""
                          ELSE Head(ps) \o "\n" \o Pages(Tail(ps))
         IN  Ok(Strip(Pages(content.units)))

\* _extract_from_docx: the non-blank paragraphs, stripped, then one unit per
\* non-empty table row (its non-blank cells joined by a space), joined by newlines
ExtractFromDocx(content) ==
    IF content.kind # "readable" THEN Raise(Exc("PackageNotFoundError", "Package not found"))
    ELSE LET NonBlank(s) == Strip(s) # ""
             paragraphs == [i \in 1..Len(SelectSeq(content.units, NonBlank)) |->
                               Strip(SelectSeq(content.units, NonBlank)[i])]
             RowText(row) ==
                 LET cells == SelectSeq(row, NonBlank)
                 IN  Join([i \in 1..Len(cells) |-> Strip(cells[i])], " ")
             rows == [i \in 1..Len(content.tables) |-> RowText(content.tables[i])]
             NonEmpty(s) == s # ""
             text_parts == paragraphs \o SelectSeq(rows, NonEmpty)
         IN  Ok(Strip(Join(text_parts, "\n")))

\* _extract_text_from_file without its else branch: every other suffix is
\* read as a Word document
ExtractTextFromFileNoElse(path) ==
    IF SuffixLower(path.suffix) = ".pdf" THEN ExtractFromPdf(path.content)
    ELSE ExtractFromDocx(path.content)

\* _extract_text_from_file: dispatch on the lower-cased suffix
ExtractTextFromFile(path) ==
    LET file_extension == SuffixLower(path.suffix)
    IN  IF file_extension = ".pdf" THEN ExtractFromPdf(path.content)
        ELSE IF file_extension \in {".doc", ".docx"} THEN ExtractFromDocx(path.content)
        ELSE Raise(Exc("ValueError", "Unsupported file format: " \o file_extension))

\* the record parse_cv_file returns from its except clause
FailedRecord(e) ==
    [raw_text |-> "",
     parsing_status |-> "failed",
     parsing_error |-> e,
     personal_info |-> EmptyDict,
     education |-> EmptyList,
     work_experience |-> EmptyList,
     skills |-> [technical |-> EmptyList, soft |-> EmptyList],
     certifications |-> EmptyList,
     languages |-> EmptyList,
     total_experience_years |-> 0]

\* the record parse_cv_file returns from its try block: the parsed fields
\* plus raw_text and the status
CompletedRecord(parsed_data, text) ==
    [raw_text |-> text,
     parsing_status |-> "completed",
     personal_info |-> parsed_data.personal_info,
     education |-> parsed_data.education,
     work_experience |-> parsed_data.work_experience,
     skills |-> parsed_data.skills,
     certifications |-> parsed_data.certifications,
     languages |-> parsed_data.languages,
     total_experience_years |-> parsed_data.total_experience_years]

\* _parse_text_content: the seven structured fields.  The extractors of the
\* personal, education, experience, certification and language fields are not
\* traced here: their results are inputs of the step (fields), as is an
\* exception escaping any of them (fault)
ParseTextContent(text, fields, fault) ==
    IF fault.raised THEN Raise(fault.err)
    ELSE Ok([personal_info |-> fields.personal_info,
             education |-> fields.education,
             work_experience |-> fields.work_experience,
             skills |-> fields.skills,
             certifications |-> fields.certifications,
             languages |-> fields.languages,
             total_experience_years |-> fields.total_experience_years])

\* the except clause of parse_cv_file narrowed to ValueError: any other
\* exception reaches the caller
ExceptClauseValueErrorOnly(e) ==
    IF e.type = "ValueError"
    THEN [outcome |-> "returned", value |-> FailedRecord(e.msg)]
    ELSE [outcome |-> "raised", value |-> NoValue]

\* the except clause of parse_cv_file: every Exception becomes the failed
\* record, which is returned
ExceptClause(e) == [outcome |-> "returned", value |-> FailedRecord(e.msg)]

\* parse_cv_file, first statements of the try block: extract the text and
\* reject an empty one
ExtractStep ==
    /\ parse_pc = "start"
    /\ LET r == ExtractTextFromFile(file_path)
           failed == ~r.ok \/ r.val = ""        \* if not raw_text: raise ValueError
           e == IF ~r.ok THEN r.err
                ELSE Exc("ValueError", "Could not extract text from file")
       IN  IF failed
           THEN /\ parse_pc' = "done"
                /\ parse_exc' = e
                /\ parse_return' = ExceptClause(e).value
                /\ parse_outcome' = ExceptClause(e).outcome
                /\ UNCHANGED raw_text
           ELSE /\ parse_pc' = "extracted"
                /\ raw_text' = r.val
                /\ UNCHANGED <<parse_return, parse_outcome, parse_exc>>
    /\ UNCHANGED file_path

\* parse_cv_file, rest of the try block: parse the fields and return the
\* completed record, or go through the except clause when parsing raised
ParseStep ==
    /\ parse_pc = "extracted"
    /\ \E fields \in ParsedFieldsPool, fault \in ParseFaults :
         LET r == ParseTextContent(raw_text, fields, fault)
         IN  IF r.ok
             THEN /\ parse_return' = CompletedRecord(r.val, raw_text)
                  /\ parse_outcome' = "returned"
                  /\ UNCHANGED parse_exc
             ELSE /\ parse_exc' = r.err
                  /\ parse_return' = ExceptClause(r.err).value
                  /\ parse_outcome' = ExceptClause(r.err).outcome
    /\ parse_pc' = "done"
    /\ UNCHANGED <<file_path, raw_text>>

\* parse_cv_file has been called with one document of the pool
ParseStart(files) ==
    /\ file_path \in files
    /\ parse_pc = "start"
    /\ raw_text = ""
    /\ parse_return = NoValue
    /\ parse_outcome = "none"
    /\ parse_exc = NoExc

\* analyze_candidates_for_job has been called with a batch of the pool
BatchStart(batches, jobs, weights) ==
    /\ candidates \in batches
    /\ job_posting \in jobs
    /\ custom_weights \in weights
    /\ batch_pc = "loop"
    /\ next_candidate = 1
    /\ results = <<>>
    /\ batch_outcome = "none"
    /\ statistics = NoValue

\* parse_cv_file is not running
ParseIdle ==
    ParseStart({[suffix |-> ".pdf",
                 content |-> [kind |-> "readable", units |-> <<txt_sql>>,
                              tables |-> <<>>]]})

\* analyze_candidates_for_job is not running
BatchIdle == BatchStart({<<>>}, {job_scenario_a}, {None})

\* _analyze_experience_match is not called
ExperienceIdle ==
    /\ exp_years = 0
    /\ exp_min = 0
    /\ exp_max = None
    /\ exp_pc = "idle"
    /\ exp_result = NoValue

\* _is_skill_mentioned is not called
MentionIdle ==
    /\ mention_text = ""
    /\ mention_skill = ""
    /\ mention_pc = "idle"
    /\ mention_result = NoValue

\* parse_job_requirements is not called
RequirementsIdle ==
    /\ req_description = ""
    /\ req_pc = "idle"
    /\ req_result = NoValue

\* extract_candidate_name is not called
NameIdle ==
    /\ name_text = ""
    /\ name_nlp = [kind |-> "none", ents |-> <<>>]
    /\ name_pc = "idle"
    /\ name_result = NoValue
    /\ name_source = "none"
    /\ name_outcome = "none"

\* no resume is being parsed and scored
ScoreIdle ==
    /\ score_text = ""
    /\ score_candidate = NoValue
    /\ score_job = job_scenario_a
    /\ score_pc = "idle"
    /\ score_analysis = NoValue
    /\ score_result = NoValue

\* _extract_education and _extract_work_experience are not running
WalkIdle ==
    /\ walk_kind = "idle"
    /\ walk_lines = <<>>
    /\ walk_orgs = <<>>
    /\ walk_now = 0
    /\ walk_i = 1
    /\ walk_entries = <<>>
    /\ walk_pc = "done"
    /\ walk_steps = 0

\* _extract_job_keywords is not called
KeywordsIdle ==
    /\ kw_description = ""
    /\ kw_pc = "idle"
    /\ kw_keywords = NoValue

\* _extract_experience_years is not called
YearsIdle ==
    /\ yrs_text = ""
    /\ yrs_pc = "idle"
    /\ yrs_result = NoValue

\* self.default_weights
default_weights ==
    [skills |-> Rat(35, 100), experience |-> Rat(25, 100),
     education |-> Rat(20, 100), soft_skills |-> Rat(20, 100)]

\* a selection of self.all_technical_skills in its order; swift is listed
\* under two categories
all_technical_skills ==
    <<"python", "java", "javascript", "c++", "swift", "sql", "c", "react",
      "node.js", "aws", "swift">>

\* the state CVAnalyzer.__init__ and NLPService.__init__ leave
SharedInit ==
    /\ analyzer_default_weights = default_weights
    /\ taxonomy = all_technical_skills

ParseInit ==
    /\ ParseStart(FilePool)
    /\ BatchIdle
    /\ ExperienceIdle
    /\ MentionIdle
    /\ RequirementsIdle
    /\ NameIdle
    /\ ScoreIdle
    /\ SharedInit /\ WalkIdle /\ KeywordsIdle /\ YearsIdle

ParseNext ==
    \/ ExtractStep /\ UNCHANGED <<batchVars, expVars, mentionVars, reqVars, nameVars, scoreVars, sharedVars, laterVars>>
    \/ ParseStep /\ UNCHANGED <<batchVars, expVars, mentionVars, reqVars, nameVars, scoreVars, sharedVars, laterVars>>

SpecParse == ParseInit /\ [][ParseNext]_vars

\* the extensions _extract_text_from_file dispatches on
SupportedSuffixes == {".pdf", ".doc", ".docx"}

StructuredFieldsEmpty(rec) ==
    /\ rec.personal_info = EmptyDict
    /\ rec.education = EmptyList
    /\ rec.work_experience = EmptyList
    /\ rec.skills = [technical |-> EmptyList, soft |-> EmptyList]
    /\ rec.certifications = EmptyList
    /\ rec.languages = EmptyList
    /\ rec.total_experience_years = 0

\* C1: parse_cv_file never raises to its caller.  Whenever extraction or
\* field parsing raised (unreadable or zero-length document, empty extracted
\* text, a parsing error), the returned record has parsing_status "failed",
\* parsing_error the error's description, raw_text "" and every structured
\* field empty; a "completed" record is returned only when nothing raised.
ParseNeverRaises ==
    /\ parse_outcome # "raised"
    /\ parse_pc = "done" =>
         /\ parse_outcome = "returned"
         /\ parse_return.parsing_status \in {"completed", "failed"}
         /\ (~ExtractTextFromFile(file_path).ok \/ ExtractTextFromFile(file_path).val = "")
               => parse_exc # NoExc
         /\ parse_exc # NoExc =>
               /\ parse_return.parsing_status = "failed"
               /\ parse_return.parsing_error = parse_exc.msg
               /\ parse_return.raw_text = ""
               /\ StructuredFieldsEmpty(parse_return)
         /\ parse_return.parsing_status = "completed" => parse_exc = NoExc

\* C1 witness: a zero-length pdf has been parsed into the failed record
ParseNeverRaisesWitness ==
    /\ parse_pc = "done"
    /\ file_path.suffix = ".pdf"
    /\ file_path.content.kind = "zero_length"
    /\ parse_return.parsing_status = "failed"
    /\ parse_return.parsing_error = "Cannot read an empty file"

-----------------------------------------------------------------------------
(* CVAnalyzer._extract_job_keywords *)

\* the stop words of _extract_job_keywords
StopWords ==
    {"the", "and", "or", "but", "in", "on", "at", "to", "for", "of", "with", "by", "is",
     "are", "was", "were", "be", "been", "being", "have", "has", "had", "do", "does",
     "did", "will", "would", "could", "should", "may", "might", "must", "can", "shall",
     "a", "an", "this", "that", "these", "those", "we", "you", "they", "he", "she", "it",
     "i", "me", "my", "your", "our", "their", "him", "her", "us", "them", "looking",
     "seeking", "required", "preferred", "experience", "years", "work", "working",
     "position", "role", "job", "candidate", "responsibilities", "duties",
     "requirements", "qualifications", "skills", "ability", "knowledge", "include",
     "including", "such", "well", "good", "strong", "excellent"}

\* [a-zA-Z0-9+#.-]
KeywordChars == Letters \cup Digits \cup {"+", "#", ".", "-"}

SetMin(S) == CHOOSE x \in S : \A y \in S : x <= y

SetMax(S) == CHOOSE x \in S : \A y \in S : y <= x

\* where the match of a pattern that starts at position i ends (0: no match
\* starts at i).  Every pattern begins with \b.
\*   token    \b[a-zA-Z][a-zA-Z0-9+#.-]*\b   greedy, backtracking to a \b
\*   acronym  \b[A-Z]{2,10}\b
\*   dotjs    \b\w+[.]js\b
\*   hyphen   \b\w+[-]\w+\b
\*   plus     \b\w+[+][+]?\b
MatchEnd(pattern, text, i) ==
    IF i > Len(text) \/ ~Boundary(text, i - 1) THEN 0
    ELSE LET w == RunEnd(text, i, WordChars)
         IN  CASE pattern = "token" ->
                    IF CharAt(text, i) \notin Letters THEN 0
                    ELSE LET ends == {j \in i..RunEnd(text, i + 1, KeywordChars) :
                                          Boundary(text, j)}
                         IN  IF ends = {} THEN 0 ELSE SetMax(ends)
               [] pattern = "acronym" ->
                    LET run == RunEnd(text, i, Chars(UpperLetters))
                        ends == {j \in (i + 1)..Min(run, i + 9) : Boundary(text, j)}
                    IN  IF ends = {} THEN 0 ELSE SetMax(ends)
               [] pattern = "dotjs" ->
                    IF w >= i /\ OccursAt(".js", text, w + 1) /\ Boundary(text, w + 3)
                    THEN w + 3 ELSE 0
               [] pattern = "hyphen" ->
                    IF w >= i /\ OccursAt("-", text, w + 1)
                          /\ RunEnd(text, w + 2, WordChars) >= w + 2
                    THEN RunEnd(text, w + 2, WordChars) ELSE 0
               [] pattern = "plus" ->
                    IF w >= i /\ OccursAt("+", text, w + 1)
                    THEN IF OccursAt("+", text, w + 2) /\ Boundary(text, w + 2) THEN w + 2
                         ELSE IF Boundary(text, w + 1) THEN w + 1
                         ELSE 0
                    ELSE 0

\* re.findall(pattern, text): the matches from left to right, each search
\* resuming where the previous match ended
RECURSIVE FindAll(_, _, _)
FindAll(pattern, text, i) ==
    IF i > Len(text) THEN <<>>
    ELSE LET e == MatchEnd(pattern, text, i)
         IN  IF e >= i THEN <<SubSeq(text, i, e)>> \o FindAll(pattern, text, e + 1)
             ELSE FindAll(pattern, text, i + 1)

\* how many most frequent words _extract_job_keywords keeps
TopKeywords == 25

\* Counter(words).most_common(n): by decreasing count, ties in order of first
\* occurrence
MostCommon(words, n) ==
    LET distinct == Dedup(words)
        \* the rank of the word first seen at index k of distinct
        Rank(k) == Cardinality({j \in DOMAIN distinct :
                       \/ Count(words, distinct[j]) > Count(words, distinct[k])
                       \/ Count(words, distinct[j]) = Count(words, distinct[k]) /\ j < k})
        sorted == [r \in 1..Len(distinct) |->
                       distinct[CHOOSE k \in DOMAIN distinct : Rank(k) = r - 1]]
    IN  SubSeq(sorted, 1, Min(n, Len(sorted)))

\* the four tech_patterns, in order
TechPatterns == <<"acronym", "dotjs", "hyphen", "plus">>

\* _extract_job_keywords: the set behind list(set(top_keywords)); the order
\* of that list is the iteration order of a Python set and is not modelled
ExtractJobKeywords(job_description) ==
    LET words == FindAll("token", Lower(job_description), 1)
        Meaningful(word) == word \notin StopWords /\ Len(word) >= 2
        meaningful_words == SelectSeq(words, Meaningful)
        top_keywords == Range(MostCommon(meaningful_words, TopKeywords))
        matches == UNION {Range(FindAll(TechPatterns[k], job_description, 1)) :
                              k \in DOMAIN TechPatterns}
    IN  top_keywords \cup {Lower(m) : m \in matches}

-----------------------------------------------------------------------------
(* CVAnalyzer: scoring one candidate against a job *)

\* dict.get(key, default)
Get(dict, key, default) == IF key \in DOMAIN dict THEN dict[key] ELSE default

\* [s.lower() for s in seq]
LowerAll(seq) == [i \in DOMAIN seq |-> Lower(seq[i])]

\* _extract_job_requirements
ExtractJobRequirements(posting) ==
    [required_skills |-> posting.required_skills,
     preferred_skills |-> posting.preferred_skills,
     education_requirements |-> posting.education_requirements,
     soft_skills |-> posting.soft_skills,
     min_experience_years |-> IF Truthy(posting.min_experience_years)
                              THEN posting.min_experience_years.v ELSE 0,
     max_experience_years |-> posting.max_experience_years,
     title |-> posting.title,
     description |-> posting.description]

\* _extract_candidate_info; candidate.skills is a JSON column: None, a dict,
\* or (malformed) a list, on which .get raises
ExtractCandidateInfo(candidate) ==
    IF candidate.skills.kind = "list" /\ candidate.skills.technical # <<>>
    THEN Raise(Exc("AttributeError", "'list' object has no attribute 'get'"))
    ELSE Ok([technical_skills |-> IF candidate.skills.kind = "dict"
                                  THEN candidate.skills.technical ELSE <<>>,
             soft_skills |-> IF candidate.skills.kind = "dict"
                             THEN candidate.skills.soft ELSE <<>>,
             education |-> candidate.education,
             total_experience_years |-> candidate.total_experience_years,
             raw_text |-> candidate.raw_text])

\* the score of _analyze_skills_match from its counts
\* the score without the base of 15
SkillScoreNoBase(n_matches, n_keyword_matches, total_job_terms) ==
    IF total_job_terms = 0 THEN RInt(30)
    ELSE LET match_rate == Rat(n_matches, Max(total_job_terms, 1))
             keyword_boost == Min(30, n_keyword_matches * 2)
         IN  RMin(RInt(100), RAdd(RMul(match_rate, RInt(60)), RInt(keyword_boost)))

SkillScore(n_matches, n_keyword_matches, total_job_terms) ==
    IF total_job_terms = 0 THEN RInt(30)
    ELSE LET match_rate == Rat(n_matches, Max(total_job_terms, 1))
             keyword_boost == Min(30, n_keyword_matches * 2)
         IN  RMin(RInt(100), RAdd(RMul(match_rate, RInt(60)), RInt(keyword_boost + 15)))

\* _analyze_skills_match with the candidate's own skills counted among the
\* job's terms
MatchSkillsDiluted(cv_text, job_keywords, candidate_skills, required_skills, preferred_skills) ==
    LET matched_keywords == {k \in job_keywords : IsSubstring(k, cv_text)}
        Matches(skill) == skill \in candidate_skills \/ IsSubstring(skill, cv_text)
        matched_predefined == SelectSeq(required_skills \o preferred_skills, Matches)
        all_matches == matched_keywords \cup Range(matched_predefined)
        total_job_terms ==
            Cardinality(job_keywords) + Len(required_skills) + Len(preferred_skills)
            + Cardinality(candidate_skills)
        Missing(skill) == skill \notin all_matches
    IN  [score |-> SkillScore(Cardinality(all_matches), Cardinality(matched_keywords),
                              total_job_terms),
         matched |-> all_matches,
         missing |-> SelectSeq(required_skills, Missing),
         details |-> [keyword_matches |-> Cardinality(matched_keywords),
                      predefined_matches |-> Len(matched_predefined),
                      total_job_terms |-> total_job_terms]]

\* the matching with the missing skills taken against the keywords found
\* in the text alone
MatchSkillsMissingByKeyword(cv_text, job_keywords, candidate_skills, required_skills, preferred_skills) ==
    LET matched_keywords == {k \in job_keywords : IsSubstring(k, cv_text)}
        Matches(skill) == skill \in candidate_skills \/ IsSubstring(skill, cv_text)
        matched_predefined == SelectSeq(required_skills \o preferred_skills, Matches)
        all_matches == matched_keywords \cup Range(matched_predefined)
        total_job_terms ==
            Cardinality(job_keywords) + Len(required_skills) + Len(preferred_skills)
        Missing(skill) == skill \notin matched_keywords
    IN  [score |-> SkillScore(Cardinality(all_matches), Cardinality(matched_keywords),
                              total_job_terms),
         matched |-> all_matches,
         missing |-> SelectSeq(required_skills, Missing),
         details |-> [keyword_matches |-> Cardinality(matched_keywords),
                      predefined_matches |-> Len(matched_predefined),
                      total_job_terms |-> total_job_terms]]

\* the matching of _analyze_skills_match on its lower-cased locals.
\* all_matches is list(set(...)): its order is the iteration order of a
\* Python set, so matched is modelled as the set
MatchSkills(cv_text, job_keywords, candidate_skills, required_skills, preferred_skills) ==
    LET matched_keywords == {k \in job_keywords : IsSubstring(k, cv_text)}
        Matches(skill) == skill \in candidate_skills \/ IsSubstring(skill, cv_text)
        matched_predefined == SelectSeq(required_skills \o preferred_skills, Matches)
        all_matches == matched_keywords \cup Range(matched_predefined)
        total_job_terms ==
            Cardinality(job_keywords) + Len(required_skills) + Len(preferred_skills)
        Missing(skill) == skill \notin all_matches
    IN  [score |-> SkillScore(Cardinality(all_matches), Cardinality(matched_keywords),
                              total_job_terms),
         matched |-> all_matches,
         missing |-> SelectSeq(required_skills, Missing),
         details |-> [keyword_matches |-> Cardinality(matched_keywords),
                      predefined_matches |-> Len(matched_predefined),
                      total_job_terms |-> total_job_terms]]

\* _analyze_skills_match
AnalyzeSkillsMatch(candidate_info, job_requirements) ==
    MatchSkills(Lower(candidate_info.raw_text),
                ExtractJobKeywords(Lower(job_requirements.description)),
                Range(LowerAll(candidate_info.technical_skills)),
                LowerAll(job_requirements.required_skills),
                LowerAll(job_requirements.preferred_skills))

\* the education_keywords of _analyze_education_match: degree and institution
\* of a dict entry, the text of any other entry
RECURSIVE EducationKeywords(_)
EducationKeywords(education) ==
    IF education = <<>> THEN <<>>
    ELSE LET edu == Head(education)
         IN  (IF edu.kind = "dict"
              THEN <<Lower(edu.degree), Lower(edu.institution)>>
              ELSE <<Lower(edu.text)>>) \o EducationKeywords(Tail(education))

\* _analyze_education_match were a requirement met only by a degree or
\* institution that it contains
AnalyzeEducationMatchOneWay(candidate_info, job_requirements) ==
    LET candidate_education == candidate_info.education
        required_education == job_requirements.education_requirements
        education_keywords == EducationKeywords(candidate_education)
        Met(req) == \E k \in DOMAIN education_keywords :
                        IsSubstring(education_keywords[k], Lower(req))
        matched == SelectSeq(required_education, Met)
    IN  IF required_education = <<>>
        THEN Ok([score |-> RInt(25), matched |-> <<>>])
        ELSE IF \E i \in DOMAIN candidate_education :
                    candidate_education[i].kind = "dict" /\ candidate_education[i].degree_null
        THEN Raise(Exc("AttributeError", "'NoneType' object has no attribute 'lower'"))
        ELSE Ok([score |-> Rat(Len(matched) * 100, Len(required_education)),
                 matched |-> matched])

\* _analyze_education_match; a dict entry whose degree is JSON null makes
\* .lower() raise
AnalyzeEducationMatch(candidate_info, job_requirements) ==
    LET candidate_education == candidate_info.education
        required_education == job_requirements.education_requirements
        education_keywords == EducationKeywords(candidate_education)
        Met(req) == \E k \in DOMAIN education_keywords :
                        \/ IsSubstring(education_keywords[k], Lower(req))
                        \/ IsSubstring(Lower(req), education_keywords[k])
        matched == SelectSeq(required_education, Met)
    IN  IF required_education = <<>>
        THEN Ok([score |-> RInt(25), matched |-> <<>>])
        ELSE IF \E i \in DOMAIN candidate_education :
                    candidate_education[i].kind = "dict" /\ candidate_education[i].degree_null
        THEN Raise(Exc("AttributeError", "'NoneType' object has no attribute 'lower'"))
        ELSE Ok([score |-> Rat(Len(matched) * 100, Len(required_education)),
                 matched |-> matched])

\* the experience score growing with the years beyond the minimum
ExperienceScoreUncapped(candidate_years, min_required, max_required) ==
    IF min_required = 0 THEN RInt(40)
    ELSE Rat(candidate_years * 100, min_required * 100)

\* the score of _analyze_experience_match; candidate_years in hundredths
ExperienceScore(candidate_years, min_required, max_required) ==
    IF min_required = 0 THEN RInt(40)
    ELSE IF candidate_years >= min_required * 100
    THEN IF Truthy(max_required) /\ candidate_years > max_required.v * 100
         THEN RInt(85)
         ELSE RInt(100)
    ELSE IF min_required > 0
         THEN RMax(RInt(40), Rat(candidate_years * 80, min_required * 100))
         ELSE RInt(60)

\* _analyze_experience_match
AnalyzeExperienceMatch(candidate_info, job_requirements) ==
    LET candidate_years == candidate_info.total_experience_years
        min_required == job_requirements.min_experience_years
        max_required == job_requirements.max_experience_years
    IN  [score |-> ExperienceScore(candidate_years, min_required, max_required),
         details |-> [candidate_years |-> candidate_years,
                      min_required |-> min_required,
                      max_required |-> max_required,
                      meets_minimum |-> candidate_years >= min_required * 100]]

\* _analyze_soft_skills_match
AnalyzeSoftSkillsMatch(candidate_info, job_requirements) ==
    LET candidate_soft_skills == Range(LowerAll(candidate_info.soft_skills))
        required_soft_skills == LowerAll(job_requirements.soft_skills)
        Has(skill) == skill \in candidate_soft_skills
        matched == SelectSeq(required_soft_skills, Has)
    IN  IF required_soft_skills = <<>>
        THEN [score |-> RInt(50), matched |-> <<>>]
        ELSE [score |-> Rat(Len(matched) * 100, Len(required_soft_skills)),
              matched |-> matched]

\* the shortlisting threshold of _determine_match_status
ShortlistThreshold == 50

\* a status function with a third status, pending, for the scores from
\* 30 up to the threshold
DetermineMatchStatusPending(overall_score) ==
    IF RLe(RInt(ShortlistThreshold), overall_score) THEN "shortlisted"
    ELSE IF RLe(RInt(30), overall_score) THEN "pending" ELSE "rejected"

\* _determine_match_status
DetermineMatchStatus(overall_score) ==
    IF RLe(RInt(ShortlistThreshold), overall_score) THEN "shortlisted" ELSE "rejected"

\* the thresholds of _generate_ai_insights
StrengthThreshold == 80
ConcernThreshold == 50
InterviewThreshold == 70

\* _generate_ai_insights
GenerateAiInsights(posting, overall_score, skill, education, experience, soft) ==
    LET Strength(score, text) ==
            IF RLe(RInt(StrengthThreshold), score) THEN <<text>> ELSE <<>>
        Concern(score, text) ==
            IF ~RLe(RInt(ConcernThreshold), score) THEN <<text>> ELSE <<>>
    IN  [summary |-> "Candidate shows " \o ToString(Round0(overall_score))
                     \o "% match for " \o posting.title \o " position. ",
         strengths |-> Strength(skill.score, "Strong technical skill alignment")
                       \o Strength(experience.score, "Meets experience requirements")
                       \o Strength(education.score, "Educational background aligns well")
                       \o Strength(soft.score, "Good soft skills match"),
         concerns |-> Concern(skill.score, "Missing key technical skills")
                      \o Concern(experience.score, "Insufficient relevant experience")
                      \o Concern(education.score, "Education requirements not fully met"),
         recommendations |->
             IF RLe(RInt(InterviewThreshold), overall_score)
             THEN <<"Proceed with interview scheduling">>
             ELSE IF RLe(RInt(ShortlistThreshold), overall_score)
             THEN <<"Consider for phone screening">>
                  \o (IF skill.missing # <<>>
                      THEN <<"Assess missing technical skills during interview">>
                      ELSE <<>>)
             ELSE <<"Not recommended for this position">>]

\* the weighted sum of _analyze_single_candidate
OverallScore(skill, education, experience, soft, weights) ==
    RAdd(RAdd(RMul(skill, Get(weights, "skills", Rat(35, 100))),
              RMul(education, Get(weights, "education", Rat(20, 100)))),
         RAdd(RMul(experience, Get(weights, "experience", Rat(25, 100))),
              RMul(soft, Get(weights, "soft_skills", Rat(20, 100)))))

\* _analyze_single_candidate from the overall score on; scores are reported
\* rounded to two decimals (hundredths), the status is that of the sum
ScoreCandidate(posting, overall_score, skill_analysis, education_analysis, experience_analysis, soft_skills_analysis) ==
    LET ai_insights == GenerateAiInsights(posting, overall_score, skill_analysis,
                                          education_analysis, experience_analysis,
                                          soft_skills_analysis)
    IN  [overall_score |-> Round2(overall_score),
         match_status |-> DetermineMatchStatus(overall_score),
         skill_match_score |-> Round2(skill_analysis.score),
         education_match_score |-> Round2(education_analysis.score),
         experience_match_score |-> Round2(experience_analysis.score),
         soft_skills_score |-> Round2(soft_skills_analysis.score),
         matched_skills |-> skill_analysis.matched,
         missing_skills |-> skill_analysis.missing,
         matched_education |-> education_analysis.matched,
         experience_analysis |-> experience_analysis.details,
         ai_summary |-> ai_insights.summary,
         strengths |-> ai_insights.strengths,
         concerns |-> ai_insights.concerns,
         recommendations |-> ai_insights.recommendations]

\* _analyze_single_candidate from the four analyses on
CombineAnalyses(posting, weights, skill_analysis, edu, experience_analysis, soft_skills_analysis) ==
    IF ~edu.ok THEN Raise(edu.err)
    ELSE Ok(ScoreCandidate(posting,
                           OverallScore(skill_analysis.score, edu.val.score,
                                        experience_analysis.score,
                                        soft_skills_analysis.score, weights),
                           skill_analysis, edu.val, experience_analysis,
                           soft_skills_analysis))

\* _analyze_single_candidate: the analysis dict, or the exception raised on
\* the way
AnalyzeSingleCandidate(candidate, posting, weights) ==
    LET job_requirements == ExtractJobRequirements(posting)
        info == ExtractCandidateInfo(candidate)
    IN  IF ~info.ok THEN Raise(info.err)
        ELSE CombineAnalyses(posting, weights,
                             AnalyzeSkillsMatch(info.val, job_requirements),
                             AnalyzeEducationMatch(info.val, job_requirements),
                             AnalyzeExperienceMatch(info.val, job_requirements),
                             AnalyzeSoftSkillsMatch(info.val, job_requirements))

-----------------------------------------------------------------------------
(* CVAnalyzer.analyze_candidates_for_job *)

\* CVAnalysisCreate(...) of the try block
AnalysisData(candidate, job, analysis, processing_time) ==
    [candidate_id |-> candidate.id,
     job_posting_id |-> job.id,
     overall_score |-> analysis.overall_score,
     match_status |-> analysis.match_status,
     skill_match_score |-> analysis.skill_match_score,
     education_match_score |-> analysis.education_match_score,
     experience_match_score |-> analysis.experience_match_score,
     soft_skills_score |-> analysis.soft_skills_score,
     matched_skills |-> analysis.matched_skills,
     missing_skills |-> analysis.missing_skills,
     matched_education |-> analysis.matched_education,
     experience_analysis |-> analysis.experience_analysis,
     ai_summary |-> analysis.ai_summary,
     strengths |-> analysis.strengths,
     concerns |-> analysis.concerns,
     recommendations |-> analysis.recommendations,
     processing_time_ms |-> Some(processing_time)]

\* the failed analysis without the error text
FailedAnalysisNoError(candidate, job, e) ==
    [candidate_id |-> candidate.id,
     job_posting_id |-> job.id,
     overall_score |-> 0,
     match_status |-> "rejected",
     skill_match_score |-> 0,
     education_match_score |-> 0,
     experience_match_score |-> 0,
     soft_skills_score |-> 0,
     matched_skills |-> {},
     missing_skills |-> <<>>,
     matched_education |-> <<>>,
     experience_analysis |-> NoValue,
     ai_summary |-> "Analysis failed",
     strengths |-> <<>>,
     concerns |-> <<>>,
     recommendations |-> <<>>,
     processing_time_ms |-> None]

\* CVAnalysisCreate(...) of the except clause: the schema's defaults for
\* everything but the ids, the score, the status and the summary
FailedAnalysis(candidate, job, e) ==
    [candidate_id |-> candidate.id,
     job_posting_id |-> job.id,
     overall_score |-> 0,
     match_status |-> "rejected",
     skill_match_score |-> 0,
     education_match_score |-> 0,
     experience_match_score |-> 0,
     soft_skills_score |-> 0,
     matched_skills |-> {},
     missing_skills |-> <<>>,
     matched_education |-> <<>>,
     experience_analysis |-> NoValue,
     ai_summary |-> "Analysis failed: " \o e.msg,
     strengths |-> <<>>,
     concerns |-> <<>>,
     recommendations |-> <<>>,
     processing_time_ms |-> None]

\* an except clause that logs the error and goes on without a result
OnExceptionSkip(res, candidate, job, e) == res

\* the except clause of the loop body: append the failed analysis
OnException(res, candidate, job, e) == Append(res, FailedAnalysis(candidate, job, e))

\* weights = custom_weights or self.default_weights
Weights(custom) ==
    IF custom.some /\ DOMAIN custom.v # {} THEN custom.v ELSE analyzer_default_weights

\* the body of the for loop: append the result of the scored candidate, or
\* the failed analysis when scoring raised
LoopBody(res, candidate, job, analysis, processing_time) ==
    IF analysis.ok
    THEN Append(res, AnalysisData(candidate, job, analysis.val, processing_time))
    ELSE OnException(res, candidate, job, analysis.err)

\* one iteration of the for loop, were the scored candidate's technical
\* skills lower-cased in place on the candidate record
AnalyzeCandidateInPlace ==
    /\ batch_pc = "loop"
    /\ next_candidate <= Len(candidates)
    /\ \E processing_time \in ProcessingTimes :
           results' = LoopBody(results, candidates[next_candidate], job_posting,
                               AnalyzeSingleCandidate(candidates[next_candidate],
                                                      job_posting,
                                                      Weights(custom_weights)),
                               processing_time)
    /\ candidates' = [candidates EXCEPT ![next_candidate].skills.technical = LowerAll(@)]
    /\ next_candidate' = next_candidate + 1
    /\ UNCHANGED <<job_posting, custom_weights, batch_pc, batch_outcome, statistics>>

\* one iteration of the for loop
AnalyzeCandidate ==
    /\ batch_pc = "loop"
    /\ next_candidate <= Len(candidates)
    /\ \E processing_time \in ProcessingTimes :
           results' = LoopBody(results, candidates[next_candidate], job_posting,
                               AnalyzeSingleCandidate(candidates[next_candidate],
                                                      job_posting,
                                                      Weights(custom_weights)),
                               processing_time)
    /\ next_candidate' = next_candidate + 1
    /\ UNCHANGED <<candidates, job_posting, custom_weights, batch_pc, batch_outcome,
                   statistics>>

\* the loop is exhausted: return results
ReturnResults ==
    /\ batch_pc = "loop"
    /\ next_candidate > Len(candidates)
    /\ batch_pc' = "done"
    /\ batch_outcome' = "returned"
    /\ UNCHANGED <<candidates, job_posting, custom_weights, next_candidate, results,
                   statistics>>

\* sum(a.overall_score for a in analyses), in hundredths
RECURSIVE SumScores(_)
SumScores(analyses) ==
    IF analyses = <<>> THEN 0
    ELSE Head(analyses).overall_score + SumScores(Tail(analyses))

\* round(avg_score, 2), in hundredths, for avg_score = sum / total: the
\* nearest hundredth.  A mean halfway between two hundredths is no float,
\* and the float nearest to it rounds to either neighbour
RoundedMean(sum, total) ==
    IF 2 * (sum % total) = total
    THEN {sum \div total, sum \div total + 1}
    ELSE {RoundHalfEven(sum, total)}

\* get_analysis_statistics, given the rounded mean
GetAnalysisStatistics(analyses, average_score) ==
    IF analyses = <<>>
    THEN [total |-> 0, shortlisted |-> 0, rejected |-> 0]
    ELSE [total |-> Len(analyses),
          shortlisted |->
              Cardinality({i \in DOMAIN analyses : analyses[i].match_status = "shortlisted"}),
          rejected |->
              Cardinality({i \in DOMAIN analyses : analyses[i].match_status = "rejected"}),
          average_score |-> average_score]

\* get_analysis_statistics is called on the results of the batch
SummarizeResults ==
    /\ batch_pc = "done"
    /\ \E average_score \in RoundedMean(SumScores(results), Max(Len(results), 1)) :
           statistics' = GetAnalysisStatistics(results, average_score)
    /\ batch_pc' = "summarized"
    /\ UNCHANGED <<candidates, job_posting, custom_weights, next_candidate, results,
                   batch_outcome>>

BatchInit ==
    /\ BatchStart(BatchPool, JobPool, WeightPool)
    /\ ParseIdle
    /\ ExperienceIdle
    /\ MentionIdle
    /\ RequirementsIdle
    /\ NameIdle
    /\ ScoreIdle
    /\ SharedInit /\ WalkIdle /\ KeywordsIdle /\ YearsIdle

BatchNext ==
    \/ AnalyzeCandidate /\ UNCHANGED <<parseVars, expVars, mentionVars, reqVars, nameVars, scoreVars, sharedVars, laterVars>>
    \/ ReturnResults /\ UNCHANGED <<parseVars, expVars, mentionVars, reqVars, nameVars, scoreVars, sharedVars, laterVars>>
    \/ SummarizeResults /\ UNCHANGED <<parseVars, expVars, mentionVars, reqVars, nameVars, scoreVars, sharedVars, laterVars>>

SpecBatch == BatchInit /\ [][BatchNext]_vars


-----------------------------------------------------------------------------
(* Properties of analyze_candidates_for_job *)

\* whether r was built by the except clause, which alone leaves
\* processing_time_ms unset
IsFailedAnalysis(r) == r.processing_time_ms = None

\* scoring candidates[i] against the job of the batch
Scored(i) == AnalyzeSingleCandidate(candidates[i], job_posting, Weights(custom_weights))

\* C2: when the batch has returned, the list of results is as long as the
\* list of candidates and its i-th entry carries the id of the i-th
\* candidate, whichever candidates failed to score
OneResultPerCandidate ==
    batch_pc = "done" =>
        /\ batch_outcome = "returned"
        /\ Len(results) = Len(candidates)
        /\ \A i \in DOMAIN candidates : results[i].candidate_id = candidates[i].id

\* a returned batch of two candidates with different ids, the first of
\* which failed to score and the second of which scored
OneResultPerCandidateWitness ==
    /\ batch_pc = "done"
    /\ Len(candidates) = 2
    /\ candidates[1].id # candidates[2].id
    /\ Len(results) = 2
    /\ IsFailedAnalysis(results[1])
    /\ ~IsFailedAnalysis(results[2])

\* seq without its i-th element
Remove(seq, i) == SubSeq(seq, 1, i - 1) \o SubSeq(seq, i + 1, Len(seq))

\* the results without the measured times
Timeless(res) == [i \in DOMAIN res |-> [res[i] EXCEPT !.processing_time_ms = None]]

\* the list the loop builds for a batch, apart from the measured times
RECURSIVE LoopResults(_, _, _)
LoopResults(cands, job, weights) ==
    IF cands = <<>> THEN <<>>
    ELSE LoopBody(<<>>, Head(cands), job,
                  AnalyzeSingleCandidate(Head(cands), job, weights), 0)
         \o LoopResults(Tail(cands), job, weights)

\* whether scoring candidates[i] raised and its result is the degraded
\* result for the exception
FailedAndDegraded(i, analysis) ==
    /\ ~analysis.ok
    /\ results[i].candidate_id = candidates[i].id
    /\ results[i].overall_score = 0
    /\ results[i].match_status = "rejected"
    /\ IsSubstring(analysis.err.msg, results[i].ai_summary)

\* C3: when the batch has returned, the result of every candidate whose
\* scoring raised is the degraded result (score 0, rejected, a summary that
\* contains the error text), the loop has gone on to the last candidate, and
\* the other results are those of the batch without the failing candidate
DegradedResultIsolated ==
    batch_pc = "done" =>
        /\ Len(results) = Len(candidates)
        /\ \A i \in DOMAIN candidates :
               Scored(i).ok \/ FailedAndDegraded(i, Scored(i))
        /\ \A i \in DOMAIN candidates :
               IsFailedAnalysis(results[i]) =>
                   Timeless(Remove(results, i))
                       = Timeless(LoopResults(Remove(candidates, i), job_posting,
                                              Weights(custom_weights)))

\* a returned batch whose first candidate failed to score and whose second
\* candidate was shortlisted after it
DegradedResultIsolatedWitness ==
    /\ batch_pc = "done"
    /\ Len(candidates) = 2
    /\ candidates[1] = cand_list_skills
    /\ results[1].ai_summary = "Analysis failed: 'list' object has no attribute 'get'"
    /\ ~IsFailedAnalysis(results[2])
    /\ results[2].match_status = "shortlisted"
    /\ results[2].overall_score > 0

\* C4: in every result the status is shortlisted exactly when the reported
\* overall_score, the weighted sum rounded to two decimals, is at least 50
StatusFollowsReportedScore ==
    \A i \in DOMAIN results :
        results[i].match_status = "shortlisted"
            <=> results[i].overall_score >= ShortlistThreshold * 100

\* a result that reports the score 50.00 and the status rejected
RejectedAtFifty ==
    \E i \in DOMAIN results :
        /\ results[i].overall_score = ShortlistThreshold * 100
        /\ results[i].match_status = "rejected"
        /\ candidates[i] = cand_mba
        /\ job_posting = job_mba
        /\ custom_weights = None

\* the scores of a result, in hundredths
ScoresOf(r) ==
    {r.overall_score, r.skill_match_score, r.education_match_score,
     r.experience_match_score, r.soft_skills_score}

\* C6: with the default weights the four sub-scores and the overall_score
\* of every result lie within [0, 100]
ScoresWithinHundred ==
    Weights(custom_weights) = default_weights =>
        \A i \in DOMAIN results : \A x \in ScoresOf(results[i]) : x \in 0..10000

\* a scored candidate under the default weights whose experience score is
\* 100 and whose overall_score lies strictly between 0 and 100
ScoresWithinHundredWitness ==
    /\ custom_weights = None
    /\ \E i \in DOMAIN results :
           /\ ~IsFailedAnalysis(results[i])
           /\ results[i].experience_match_score = 10000
           /\ results[i].overall_score \in 1..9999


\* C12: get_analysis_statistics returns the four fields total, shortlisted,
\* rejected and average_score for every list of results, the empty list
\* included; total is the length of the list, shortlisted and rejected count
\* the results of that status, and average_score is the mean of the overall
\* scores (to the hundredth)
StatisticsHaveFourFields ==
    batch_pc = "summarized" =>
        /\ DOMAIN statistics = {"total", "shortlisted", "rejected", "average_score"}
        /\ statistics.total = Len(results)
        /\ statistics.shortlisted =
               Cardinality({i \in DOMAIN results : results[i].match_status = "shortlisted"})
        /\ statistics.rejected =
               Cardinality({i \in DOMAIN results : results[i].match_status = "rejected"})
        /\ \A i \in DOMAIN results :
               /\ Len(results) * (statistics.average_score - 1) < SumScores(results)
               /\ SumScores(results) < Len(results) * (statistics.average_score + 1)

\* the statistics of the empty list of results have no average_score
EmptyListHasNoAverage ==
    /\ batch_pc = "summarized"
    /\ results = <<>>
    /\ statistics = [total |-> 0, shortlisted |-> 0, rejected |-> 0]

-----------------------------------------------------------------------------
(* CVAnalyzer._analyze_experience_match on its own *)

\* the most years of experience a job asks for or a candidate has
MaxYears == 6

\* _analyze_experience_match is called: total_experience_years is a whole
\* number of years or the hundredth below one, max_experience_years a
\* nullable integer
ExperienceInit ==
    /\ exp_years \in {100 * k : k \in 0..MaxYears} \cup {100 * k - 1 : k \in 1..MaxYears}
    /\ exp_min \in 0..MaxYears
    /\ exp_max \in {None} \cup {Some(m) : m \in 0..MaxYears}
    /\ exp_pc = "call"
    /\ exp_result = NoValue
    /\ ParseIdle /\ BatchIdle /\ MentionIdle /\ RequirementsIdle /\ NameIdle
    /\ ScoreIdle /\ SharedInit /\ WalkIdle /\ KeywordsIdle /\ YearsIdle

\* the call returns its dict
AnalyzeExperience ==
    /\ exp_pc = "call"
    /\ exp_result' = AnalyzeExperienceMatch([total_experience_years |-> exp_years],
                                            [min_experience_years |-> exp_min,
                                             max_experience_years |-> exp_max])
    /\ exp_pc' = "done"
    /\ UNCHANGED <<exp_years, exp_min, exp_max>>

ExperienceNext ==
    AnalyzeExperience /\ UNCHANGED <<parseVars, batchVars, mentionVars, reqVars, nameVars, scoreVars, sharedVars, laterVars>>

SpecExperience == ExperienceInit /\ [][ExperienceNext]_vars

\* C5: the experience score follows the piecewise policy: 40 when
\* min_required = 0; 100 when candidate_years >= min_required and max_required
\* is unset or candidate_years <= max_required; 85 when candidate_years >=
\* min_required and candidate_years > max_required; max(40, candidate_years /
\* min_required * 80) when candidate_years < min_required
ExperienceFollowsPolicy ==
    exp_pc = "done" =>
        exp_result.score =
            IF exp_min = 0 THEN RInt(40)
            ELSE IF exp_years >= exp_min * 100
                    /\ (exp_max = None \/ exp_years <= exp_max.v * 100)
            THEN RInt(100)
            ELSE IF exp_years >= exp_min * 100
            THEN RInt(85)
            ELSE RMax(RInt(40), Rat(exp_years * 80, exp_min * 100))

\* six years against a minimum of five and a maximum of zero score 100
FullScoreAboveZeroMaximum ==
    /\ exp_pc = "done"
    /\ exp_years = 600
    /\ exp_min = 5
    /\ exp_max = Some(0)
    /\ exp_result.score = RInt(100)


-----------------------------------------------------------------------------
(* NLPService._is_skill_mentioned *)

\* the pattern \bskill\b, skill escaped and lower-cased, matches text from
\* position i on; text is lower-cased for re.IGNORECASE
MentionAt(text, skill, i) ==
    /\ OccursAt(skill, text, i)
    /\ Boundary(text, i - 1)
    /\ Boundary(text, i + Len(skill) - 1)

\* re.search of the pattern in the lower-cased text
SearchMention(text, skill) == \E i \in 1..Len(text) : MentionAt(text, skill, i)

\* _is_skill_mentioned
IsSkillMentioned(text, skill) == SearchMention(Lower(text), Lower(skill))

\* texts searched: a token between a prefix and a suffix
MentionTexts ==
    {pre \o tok \o post :
        pre \in {"", "I know ", "x", "("},
        tok \in {"Java", "javascript", "c++", "C#", "node.js", "nodexjs"},
        post \in {"", " well", "x", ",", ")"}}

\* _is_skill_mentioned is called with a text and a skill of the taxonomy
MentionInit ==
    /\ mention_text \in MentionTexts
    /\ mention_skill \in {"java", "javascript", "c++", "c#", "node.js", "sql"}
    /\ mention_pc = "call"
    /\ mention_result = NoValue
    /\ ParseIdle /\ BatchIdle /\ ExperienceIdle /\ RequirementsIdle /\ NameIdle
    /\ ScoreIdle /\ SharedInit /\ WalkIdle /\ KeywordsIdle /\ YearsIdle

\* the call returns
SkillMentioned ==
    /\ mention_pc = "call"
    /\ mention_result' = IsSkillMentioned(mention_text, mention_skill)
    /\ mention_pc' = "done"
    /\ UNCHANGED <<mention_text, mention_skill>>

MentionNext ==
    SkillMentioned /\ UNCHANGED <<parseVars, batchVars, expVars, reqVars, nameVars, scoreVars, sharedVars, laterVars>>

SpecMention == MentionInit /\ [][MentionNext]_vars

\* what delimits a token: whitespace and punctuation
Delimiters == Whitespace \cup {",", ".", ";", ":", "!", "?", "(", ")"}

\* skill occurs in text at position i as a complete token or phrase
TokenAt(text, skill, i) ==
    /\ OccursAt(skill, text, i)
    /\ i = 1 \/ CharAt(text, i - 1) \in Delimiters
    /\ i + Len(skill) - 1 = Len(text) \/ CharAt(text, i + Len(skill)) \in Delimiters

\* skill occurs in text as a complete token or phrase, whatever the case
OccursAsToken(text, skill) ==
    \E i \in 1..Len(text) : TokenAt(Lower(text), Lower(skill), i)

\* C9: the skill-mention predicate is case-insensitive whole-word matching
\* for every skill of the taxonomy: true when the skill occurs as a complete
\* token delimited by whitespace, punctuation or the text boundary, false when
\* it occurs only as part of a longer token
MentionIsWholeToken ==
    mention_pc = "done" =>
        mention_result = OccursAsToken(mention_text, mention_skill)

\* c++ between two spaces is not found
DelimitedSkillNotMentioned ==
    /\ mention_pc = "done"
    /\ mention_text = "I know c++ well"
    /\ mention_skill = "c++"
    /\ mention_result = FALSE


-----------------------------------------------------------------------------
(* NLPService.parse_job_requirements: required and preferred skills *)

\* the most characters of context taken on either side of a skill
ContextWindow == 100

\* the last index of the run of characters other than newline that starts
\* at i and is at most n long (i - 1 when the run is empty)
RECURSIVE DotRunEnd(_, _, _)
DotRunEnd(text, i, n) ==
    IF n > 0 /\ i <= Len(text) /\ CharAt(text, i) # "\n"
    THEN DotRunEnd(text, i + 1, n - 1)
    ELSE i - 1

\* the positions j at which \bskill\b matches after .{0,100} has matched
\* from position start on; lowered is the text lower-cased for re.IGNORECASE
MentionsFrom(lowered, skill, start) ==
    {j \in start..(DotRunEnd(lowered, start, ContextWindow) + 1) :
        MentionAt(lowered, skill, j)}

\* re.search of .{0,100}\bskill\b.{0,100}: the match at the leftmost
\* position that has one; both repetitions are greedy
ContextSearch(text, lowered, skill, starts) ==
    IF starts = {} THEN ""
    ELSE SubSeq(text, SetMin(starts),
                DotRunEnd(text,
                          SetMax(MentionsFrom(lowered, skill, SetMin(starts))) + Len(skill),
                          ContextWindow))

\* the search of _get_skill_context for the lower-cased skill
ContextOf(text, lowered, skill) ==
    ContextSearch(text, lowered, skill,
                  {start \in 1..Len(text) : MentionsFrom(lowered, skill, start) # {}})

\* _get_skill_context
GetSkillContext(text, skill) == ContextOf(text, Lower(text), Lower(skill))

required_indicators ==
    <<"required", "must", "essential", "mandatory", "need", "necessary",
      "should have", "should be", "proficient">>

preferred_indicators ==
    <<"preferred", "nice to have", "bonus", "plus", "advantage",
      "would be great", "ideal", "desirable">>

\* some indicator of the list occurs in the context
HasIndicator(indicators, context_lower) ==
    \E k \in DOMAIN indicators : IsSubstring(indicators[k], context_lower)

\* _is_skill_required with the required indicators checked first
IsRequiredContextRequiredFirst(context_lower) == HasIndicator(required_indicators, context_lower) \/ ~HasIndicator(preferred_indicators, context_lower)

\* _is_skill_required on the lower-cased context
IsRequiredContext(context_lower) ==
    IF HasIndicator(preferred_indicators, context_lower) THEN FALSE
    ELSE IF HasIndicator(required_indicators, context_lower) THEN TRUE
    ELSE TRUE

\* _is_skill_required
IsSkillRequired(context) == IsRequiredContext(Lower(context))

\* _extract_technical_skills
ExtractTechnicalSkills(text, required) ==
    LET Found(skill) ==
            /\ IsSkillMentioned(text, skill)
            /\ IsSkillRequired(GetSkillContext(text, skill)) = required
    IN  SelectSeq(taxonomy, Found)

\* the clean-up of parse_job_requirements with the required skills added
\* to the preferred ones
CleanUpSkillsUnion(required_skills, preferred_skills) ==
    [required_skills |-> Range(required_skills),
     preferred_skills |-> Range(preferred_skills) \cup Range(required_skills)]

\* the clean-up of parse_job_requirements: list(set(...)) of the required
\* skills, and of the preferred ones without the required ones
CleanUpSkills(required_skills, preferred_skills) ==
    [required_skills |-> Range(required_skills),
     preferred_skills |-> Range(preferred_skills) \ Range(required_skills)]

\* parse_job_requirements on the lower-cased description
ParseLowered(text) ==
    CleanUpSkills(ExtractTechnicalSkills(text, TRUE),
                  ExtractTechnicalSkills(text, FALSE))

\* parse_job_requirements: the skill lists of the ParsedJobRequirements
ParseJobRequirements(job_description) == ParseLowered(Lower(job_description))

\* a run of ContextWindow + 1 characters without a skill or an indicator
RECURSIVE Repeat(_, _)
Repeat(str, n) == IF n = 0 THEN "" ELSE str \o Repeat(str, n - 1)

\* sentences of a job description
Phrases ==
    {"Python REQUIRED", "java is a plus", "c++ preferred", "swift",
     "sql and aws are essential", "node.js would be great", "javascript, react"}

\* job descriptions: one sentence, two sentences on one line or on two
\* lines, and a skill with its indicator beyond the context window
DescriptionPool ==
    Phrases
    \cup {first \o sep \o second :
            first \in Phrases, second \in Phrases, sep \in {". ", "\n"}}
    \cup {"bonus" \o Repeat(".", ContextWindow + 1) \o " sql"}

\* parse_job_requirements is called
RequirementsInit ==
    /\ req_description \in DescriptionPool
    /\ req_pc = "call"
    /\ req_result = NoValue
    /\ ParseIdle /\ BatchIdle /\ ExperienceIdle /\ MentionIdle /\ NameIdle
    /\ ScoreIdle /\ SharedInit /\ WalkIdle /\ KeywordsIdle /\ YearsIdle

\* the call returns
ParseRequirements ==
    /\ req_pc = "call"
    /\ req_result' = ParseJobRequirements(req_description)
    /\ req_pc' = "done"
    /\ UNCHANGED req_description

RequirementsNext ==
    ParseRequirements /\ UNCHANGED <<parseVars, batchVars, expVars, mentionVars, nameVars, scoreVars, sharedVars, laterVars>>

SpecRequirements == RequirementsInit /\ [][RequirementsNext]_vars

\* C7: the required_skills and the preferred_skills that parse_job_requirements
\* returns have an empty intersection
RequiredPreferredDisjoint ==
    req_pc = "done" =>
        req_result.required_skills \cap req_result.preferred_skills = {}

\* a description with a required and a preferred skill has been parsed
RequiredPreferredDisjointWitness ==
    /\ req_pc = "done"
    /\ req_description = "Python REQUIRED\njava is a plus"
    /\ req_result.required_skills = {"python"}
    /\ req_result.preferred_skills = {"java"}


-----------------------------------------------------------------------------
(* CVParser.extract_candidate_name *)

UpperChar(c) ==
    IF c \in Chars(LowerLetters)
    THEN CharAt(UpperLetters, CHOOSE i \in 1..26 : CharAt(LowerLetters, i) = c)
    ELSE c

\* str.title(): a letter is upper-cased unless it follows a letter
RECURSIVE Title(_, _)
Title(s, after_letter) ==
    IF s = "" THEN ""
    ELSE (IF after_letter THEN LowerChar(Head(s)) ELSE UpperChar(Head(s)))
         \o Title(Tail(s), Head(s) \in Letters)

\* the non-empty pieces of s between characters of seps: str.split() for
\* seps = Whitespace; field is the piece being read
RECURSIVE Fields(_, _, _)
Fields(s, seps, field) ==
    IF s = "" THEN (IF field = "" THEN <<>> ELSE <<field>>)
    ELSE IF Head(s) \in seps
    THEN (IF field = "" THEN <<>> ELSE <<field>>) \o Fields(Tail(s), seps, "")
    ELSE Fields(Tail(s), seps, field \o Head(s))

\* re.sub(r'[^...]', ' ', s): every character outside keep becomes a space
RECURSIVE Blank(_, _)
Blank(s, keep) ==
    IF s = "" THEN ""
    ELSE (IF Head(s) \in keep THEN Head(s) ELSE " ") \o Blank(Tail(s), keep)

\* re.sub(rf'\s+{keyword}$', '', s, flags=re.IGNORECASE) on a stripped s
RemoveTrailing(s, keyword) ==
    IF /\ Len(s) > Len(keyword)
       /\ Lower(SubSeq(s, Len(s) - Len(keyword) + 1, Len(s))) = keyword
       /\ CharAt(s, Len(s) - Len(keyword)) \in Whitespace
    THEN RStrip(SubSeq(s, 1, Len(s) - Len(keyword)))
    ELSE s

\* the loops that remove trailing keywords one after the other; the loop
\* of the line strategy blanks a line that is a keyword and stops
RECURSIVE TrimTrailing(_, _, _)
TrimTrailing(s, keywords, blank_if_keyword) ==
    IF keywords = <<>> THEN s
    ELSE IF blank_if_keyword /\ Lower(Strip(RemoveTrailing(s, Head(keywords)))) = Head(keywords)
    THEN ""
    ELSE TrimTrailing(Strip(RemoveTrailing(s, Head(keywords))), Tail(keywords),
                      blank_if_keyword)

\* the validation of the first PERSON entity, trailing keywords removed:
\* its title-cased text, or "" when it is not taken for a name
ValidEntity(name, name_words) ==
    IF /\ Len(name_words) \in 1..5
       /\ Len(name) >= 2
       /\ \A k \in DOMAIN name_words :
              Lower(name_words[k]) \notin
                  {"email", "phone", "address", "contact", "information", "details"}
    THEN Title(name, FALSE)
    ELSE ""

\* the name of strategy 1 from the entities of the recognizer ("": none)
NerName(person_entities) ==
    IF person_entities = <<>> THEN ""
    ELSE ValidEntity(
             TrimTrailing(Strip(person_entities[1]),
                          <<"email", "phone", "address", "name", "tel", "mobile",
                            "fax", "candidate", "contact", "dob", "date">>, FALSE),
             Fields(TrimTrailing(Strip(person_entities[1]),
                                 <<"email", "phone", "address", "name", "tel", "mobile",
                                   "fax", "candidate", "contact", "dob", "date">>, FALSE),
                    Whitespace, ""))

\* the valid-name criteria of the line strategy: the title-cased line, or "";
\* str.isupper() asks for a letter and for no lower-case letter
ValidName(cleaned_line, words) ==
    IF /\ Len(words) \in 1..5
       /\ Len(cleaned_line) \in 2..50
       /\ \A k \in DOMAIN words :
              10 * Cardinality({i \in 1..Len(words[k]) : CharAt(words[k], i) \in Letters})
                  >= 7 * Len(words[k])
       /\ \/ Len(words) <= 2
          \/ Chars(cleaned_line) \cap Letters = {}
          \/ Chars(cleaned_line) \cap Chars(LowerLetters) # {}
       /\ \A word \in {"information", "details", "address", "personal", "contact",
                        "profile", "objective", "summary", "education", "experience"} :
              ~IsSubstring(word, Lower(cleaned_line))
    THEN Title(cleaned_line, FALSE)
    ELSE ""

\* the line strategy from the trailing-keyword loop on; an empty line fails
\* the length criterion as it fails the test `if not cleaned_line`
TrimmedName(cleaned_line) == ValidName(cleaned_line, Fields(cleaned_line, Whitespace, ""))

\* the line strategy from the removal of punctuation on: tokens that are
\* section keywords are dropped, the others joined by a space
CleanName(cleaned_line) ==
    LET tokens == Fields(Blank(cleaned_line, WordChars \cup Whitespace \cup {"-", "."}),
                         Whitespace, "")
        Kept(token) ==
            Lower(token) \notin
                {"email", "phone", "address", "name", "tel", "mobile", "fax", "candidate",
                 "telephone", "contact", "cell", "gmail", "yahoo", "hotmail", "outlook"}
    IN  TrimmedName(TrimTrailing(Join(SelectSeq(tokens, Kept), " "),
                                 <<"email", "phone", "address", "contact", "tel",
                                   "mobile", "name">>, TRUE))

headers_to_skip ==
    {"curriculum vitae", "resume", "cv", "professional resume", "personal resume",
     "contact", "contact information", "objective", "summary", "professional summary",
     "personal information", "personal details", "address", "profile", "about me",
     "career objective", "career summary"}

skip_if_only ==
    {"email", "phone", "address", "linkedin", "information", "details", "profile",
     "education", "experience", "skills", "certification"}

\* "label: value" of a line with a colon: the value when the label names a
\* name field, "" otherwise
NameFieldSkipped(label, value) == ""

NameField(label, value) ==
    IF /\ IsSubstring("name", label)
       /\ value # ""
       /\ \A word \in {"company", "file", "user"} : ~IsSubstring(word, label)
    THEN CleanName(value)
    ELSE ""

\* the body of the loop over the lines: the name the line yields, or ""
\* when the loop continues
NameOfLine(line, line_lower) ==
    IF line_lower \in headers_to_skip \/ line_lower \in skip_if_only THEN ""
    ELSE IF \/ IsSubstring("@", line)
            \/ IsSubstring("http", line_lower)
            \/ IsSubstring("www.", line_lower)
            \/ IsSubstring(".com", line_lower)
    THEN ""
    ELSE IF IsSubstring(":", line)
    THEN NameField(Lower(Strip(SubSeq(line, 1, RunEnd(line, 1, Chars(line) \ {":"})))),
                   Strip(SubSeq(line, RunEnd(line, 1, Chars(line) \ {":"}) + 2, Len(line))))
    ELSE CleanName(line)


\* [line.strip() for line in text.split('\n') if line.strip()]
NonBlankLines(pieces) ==
    LET NonEmpty(line) == line # ""
    IN  SelectSeq([i \in DOMAIN pieces |-> Strip(pieces[i])], NonEmpty)

LinesChecked == 10

\* the loop over lines[:10]: the first name a line yields, or ""
LinesName(lines) ==
    LET NonEmpty(name) == name # ""
        names == SelectSeq([i \in 1..Min(Len(lines), LinesChecked) |->
                                NameOfLine(lines[i], Lower(lines[i]))], NonEmpty)
    IN  IF names = <<>> THEN "" ELSE names[1]

\* the class of the local part in email_pattern
LocalChars == Letters \cup Digits \cup {".", "_", "%", "+", "-"}

\* [A-Za-z0-9.-]+\.[A-Z|a-z]{2,}\b matches text from position d; the class
\* of the top-level domain holds the bar
DomainMatches(text, d) ==
    \E p \in (d + 1)..RunEnd(text, d, Letters \cup Digits \cup {".", "-"}) :
        /\ CharAt(text, p) = "."
        /\ \E e \in (p + 2)..RunEnd(text, p + 1, Letters \cup {"|"}) : Boundary(text, e)

\* email_pattern matches text from position i; local_end is the end of the
\* run of local characters that starts at i
EmailAt(text, i, local_end) ==
    /\ Boundary(text, i - 1)
    /\ local_end >= i
    /\ local_end + 1 <= Len(text)
    /\ CharAt(text, local_end + 1) = "@"
    /\ DomainMatches(text, local_end + 2)

EmailWindow == 1000

\* strategy 3 on text[:1000]: the name from the local part of emails[0],
\* or "" when there is no email or its local part gives no name
EmailName(window) ==
    LET starts == {i \in 1..Len(window) : EmailAt(window, i, RunEnd(window, i, LocalChars))}
        \* re.sub(r'[._\d]+', ' ', email_username).strip()
        name_from_email ==
            Join(Fields(SubSeq(window, SetMin(starts),
                               RunEnd(window, SetMin(starts), LocalChars)),
                        {".", "_"} \cup Digits, ""), " ")
    IN  IF starts # {} /\ Len(name_from_email) >= 2
        THEN Title(name_from_email, FALSE)
        ELSE ""

NerWindow == 500

\* texts of CVs
NameTexts ==
    {"", " \n", "Jane Doe\njane@x.com", "RESUME\nName: jane o'neil",
     Repeat("cv\n", LinesChecked) \o "Jane Doe", "CV\nJOHN SMITH JR\nj_smith@x.org",
     "Email: a@b.co\njohn.doe@example.com", "unknown@x.com", "Phone: 123",
     "jane doe email", "Contact\nunknown", "www.x.com\n%j9.doe@x.io",
     "Company Name: Acme\nanna@y.c", "RESUME\nName: Jane Smith",
     "John Doe\nName: Jane Smith", "jane@x.com\n\n  Name: Jane Smith  \nPhone: 123",
     "Senior Engineer\nName: Jane Smith\nName: Bob Ray"}

\* the recognizer: absent (the model failed to load), raising, or giving
\* PERSON entities, which are pieces of the text it is handed
Recognizers(window) ==
    {[kind |-> "none", ents |-> <<>>], [kind |-> "raises", ents |-> <<>>],
     [kind |-> "entities", ents |-> <<>>]}
    \cup {[kind |-> "entities", ents |-> <<e>>] :
              e \in {t \in {"Jane Doe", "jane doe email", "Contact", "unknown", "Acme"} :
                        IsSubstring(t, window)}}

NameInit ==
    /\ name_text \in NameTexts
    /\ name_nlp \in Recognizers(SubSeq(name_text, 1, Min(Len(name_text), NerWindow)))
    /\ name_pc = "start"
    /\ name_result = NoValue
    /\ name_source = "none"
    /\ name_outcome = "none"
    /\ ParseIdle
    /\ BatchIdle
    /\ ExperienceIdle
    /\ MentionIdle
    /\ RequirementsIdle
    /\ ScoreIdle
    /\ SharedInit /\ WalkIdle /\ KeywordsIdle /\ YearsIdle

\* return name from a strategy
ReturnName(name, source) ==
    /\ name_result' = name
    /\ name_source' = source
    /\ name_outcome' = "returned"
    /\ name_pc' = "done"

\* fall through to the next strategy
NextStrategy(pc) ==
    /\ name_pc' = pc
    /\ UNCHANGED <<name_result, name_source, name_outcome>>

\* if not text or not text.strip(): return "Unknown"
CheckText ==
    /\ name_pc = "start"
    /\ IF Strip(name_text) = ""
       THEN ReturnName("Unknown", "none")
       ELSE NextStrategy("ner")
    /\ UNCHANGED <<name_text, name_nlp>>

\* strategy 1 without its try block: the exception of the recognizer leaves
\* the function
NerStrategyNoTry ==
    /\ name_pc = "ner"
    /\ CASE name_nlp.kind = "none" -> NextStrategy("lines")
         [] name_nlp.kind = "raises" ->
                /\ name_outcome' = "raised"
                /\ name_pc' = "done"
                /\ UNCHANGED <<name_result, name_source>>
         [] name_nlp.kind = "entities" ->
                IF NerName(name_nlp.ents) # ""
                THEN ReturnName(NerName(name_nlp.ents), "ner")
                ELSE NextStrategy("lines")
    /\ UNCHANGED <<name_text, name_nlp>>

\* strategy 1: the first PERSON entity, when there is a recognizer; its
\* exceptions are logged
NerStrategy ==
    /\ name_pc = "ner"
    /\ CASE name_nlp.kind = "none" -> NextStrategy("lines")
         [] name_nlp.kind = "raises" -> NextStrategy("lines")
         [] name_nlp.kind = "entities" ->
                IF NerName(name_nlp.ents) # ""
                THEN ReturnName(NerName(name_nlp.ents), "ner")
                ELSE NextStrategy("lines")
    /\ UNCHANGED <<name_text, name_nlp>>

\* strategy 2: the first lines that are not blank
LinesStrategy ==
    /\ name_pc = "lines"
    /\ IF NonBlankLines(Fields(name_text, {"\n"}, "")) = <<>>
       THEN ReturnName("Unknown", "none")
       ELSE IF LinesName(NonBlankLines(Fields(name_text, {"\n"}, ""))) # ""
       THEN ReturnName(LinesName(NonBlankLines(Fields(name_text, {"\n"}, ""))), "lines")
       ELSE NextStrategy("email")
    /\ UNCHANGED <<name_text, name_nlp>>

\* strategy 3: the first email address, and the final return "Unknown"
EmailStrategy ==
    /\ name_pc = "email"
    /\ IF EmailName(SubSeq(name_text, 1, Min(Len(name_text), EmailWindow))) # ""
       THEN ReturnName(EmailName(SubSeq(name_text, 1, Min(Len(name_text), EmailWindow))),
                       "email")
       ELSE ReturnName("Unknown", "none")
    /\ UNCHANGED <<name_text, name_nlp>>

NameNext ==
    \/ CheckText /\ UNCHANGED <<parseVars, batchVars, expVars, mentionVars, reqVars, scoreVars, sharedVars, laterVars>>
    \/ NerStrategy /\ UNCHANGED <<parseVars, batchVars, expVars, mentionVars, reqVars, scoreVars, sharedVars, laterVars>>
    \/ LinesStrategy /\ UNCHANGED <<parseVars, batchVars, expVars, mentionVars, reqVars, scoreVars, sharedVars, laterVars>>
    \/ EmailStrategy /\ UNCHANGED <<parseVars, batchVars, expVars, mentionVars, reqVars, scoreVars, sharedVars, laterVars>>

SpecName == NameInit /\ [][NameNext]_vars


\* the outcome of each strategy on the text and the recognizer of the call
NerResult == IF name_nlp.kind = "entities" THEN NerName(name_nlp.ents) ELSE ""
LinesResult == LinesName(NonBlankLines(Fields(name_text, {"\n"}, "")))
EmailResult == EmailName(SubSeq(name_text, 1, Min(Len(name_text), EmailWindow)))

\* the text of the call has "Name: Jane Smith" as its second non-blank line
\* and the recognizer gives no name
IsScenarioE ==
    /\ Len(NonBlankLines(Fields(name_text, {"\n"}, ""))) >= 2
    /\ NonBlankLines(Fields(name_text, {"\n"}, ""))[2] = "Name: Jane Smith"
    /\ NerResult = ""

\* the name the first non-blank line of the text yields, or ""
FirstLineName ==
    NameOfLine(NonBlankLines(Fields(name_text, {"\n"}, ""))[1],
               Lower(NonBlankLines(Fields(name_text, {"\n"}, ""))[1]))

\* C15 (as stated): for every text whose second non-blank line is
\* "Name: Jane Smith", extract_candidate_name returns "Jane Smith" when the
\* recognizer gives no name
LabelledNameReturned ==
    name_pc = "done" /\ IsScenarioE => name_result = "Jane Smith"

\* C15 (amended): the same, for the texts whose first non-blank line yields
\* no name itself; otherwise the name of the first line is returned
LabelledNameReturnedAfterHeader ==
    name_pc = "done" /\ IsScenarioE =>
        /\ name_source = "lines"
        /\ name_result = IF FirstLineName = "" THEN "Jane Smith" ELSE FirstLineName

\* "Jane Smith" has been returned from the second line, after a header, when
\* there is no recognizer
LabelledNameAfterHeader ==
    /\ name_pc = "done"
    /\ name_text = "RESUME\nName: Jane Smith"
    /\ name_nlp.kind = "none"
    /\ name_source = "lines"
    /\ name_result = "Jane Smith"

\* C10 (as amended): extract_candidate_name never raises and runs its
\* strategies in order: the lines are read only when there is no recognizer,
\* the recognizer raised or its first person entity is not a valid name; the
\* email address is read only when the lines gave no name as well; the name
\* returned is the one of the first strategy that succeeded; and "Unknown" is
\* returned whenever the text is blank or all the strategies failed
FirstSuccessWins ==
    /\ name_outcome # "raised"
    /\ name_pc \in {"ner", "lines", "email"} => Strip(name_text) # ""
    /\ name_pc \in {"lines", "email"} => NerResult = ""
    /\ name_pc = "email" => LinesResult = ""
    /\ name_pc = "done" =>
           /\ name_outcome = "returned"
           /\ CASE Strip(name_text) = "" -> name_source = "none" /\ name_result = "Unknown"
                [] Strip(name_text) # "" /\ NerResult # "" ->
                       name_source = "ner" /\ name_result = NerResult
                [] Strip(name_text) # "" /\ NerResult = "" /\ LinesResult # "" ->
                       name_source = "lines" /\ name_result = LinesResult
                [] OTHER ->
                       IF EmailResult # ""
                       THEN name_source = "email" /\ name_result = EmailResult
                       ELSE name_source = "none" /\ name_result = "Unknown"

\* C10 witness: the recognizer raised, the lines gave no name, and the name
\* returned is the one of the email address
NameFromEmailAfterFailures ==
    /\ name_pc = "done"
    /\ name_nlp.kind = "raises"
    /\ LinesResult = ""
    /\ name_source = "email"
    /\ name_result = "J Smith"

\* C10 as stated: besides the above, "Unknown" is returned exactly when the
\* text is blank or all the strategies failed
UnknownExactlyWhenAllFail ==
    /\ FirstSuccessWins
    /\ name_pc = "done" => (name_result = "Unknown" <=> name_source = "none")


-----------------------------------------------------------------------------
(* CVParser._calculate_experience_years and CVParser._extract_skills *)

\* the position after the run of whitespace that starts at i
SkipSpaces(text, i) == RunEnd(text, i, Whitespace) + 1

\* int of a string of digits
RECURSIVE StrToNat(_)
StrToNat(digits) ==
    IF digits = "" THEN 0
    ELSE 10 * StrToNat(SubSeq(digits, 1, Len(digits) - 1))
         + (CHOOSE d \in 0..9 : ToString(d) = CharAt(digits, Len(digits)))

\* \s*years?\s*experience matches text from position i, with (of\s*)? before
\* experience when of is allowed
YearsOfExperienceAt(text, i, of_allowed) ==
    LET year == SkipSpaces(text, i)
        after_years ==
            SkipSpaces(text, IF OccursAt("s", text, year + Len("year"))
                             THEN year + Len("years") ELSE year + Len("year"))
        after_of ==
            IF of_allowed /\ OccursAt("of", text, after_years)
            THEN SkipSpaces(text, after_years + Len("of"))
            ELSE after_years
    IN  OccursAt("year", text, year) /\ OccursAt("experience", text, after_of)

\* the numbers found were the first pattern (\d+)\s*years?\s*experience,
\* without its optional "of"
ExperienceYearsFoundNoOf(text) ==
    LET runs == {i \in 1..Len(text) :
                    /\ CharAt(text, i) \in Digits
                    /\ i = 1 \/ CharAt(text, i - 1) \notin Digits}
        Number(i) == StrToNat(SubSeq(text, i, RunEnd(text, i, Digits)))
        After(i) == RunEnd(text, i, Digits) + 1
    IN  {Number(i) : i \in {r \in runs :
            YearsOfExperienceAt(text, IF OccursAt("+", text, After(r))
                                      THEN After(r) + 1 ELSE After(r), FALSE)}}

\* the numbers the three experience_patterns find in the lower-cased text:
\*   (\d+)\s*years?\s*(of\s*)?experience
\*   experience\s*:\s*(\d+)\s*years?
\*   (\d+)\+?\s*years?\s*experience
\* a match takes a whole run of digits
ExperienceYearsFound(text) ==
    LET runs == {i \in 1..Len(text) :
                    /\ CharAt(text, i) \in Digits
                    /\ i = 1 \/ CharAt(text, i - 1) \notin Digits}
        Number(i) == StrToNat(SubSeq(text, i, RunEnd(text, i, Digits)))
        After(i) == RunEnd(text, i, Digits) + 1
        Labelled(i) ==
            \E e \in 1..Len(text) :
                /\ OccursAt("experience", text, e)
                /\ OccursAt(":", text, SkipSpaces(text, e + Len("experience")))
                /\ i = SkipSpaces(text, SkipSpaces(text, e + Len("experience")) + 1)
                /\ OccursAt("year", text, SkipSpaces(text, After(i)))
    IN  {Number(i) : i \in {r \in runs :
            \/ YearsOfExperienceAt(text, After(r), TRUE)
            \/ Labelled(r)
            \/ YearsOfExperienceAt(text, IF OccursAt("+", text, After(r))
                                         THEN After(r) + 1 ELSE After(r), FALSE)}}

\* _extract_all_years: re.findall(r'\b(19|20)\d{2}\b', text) returns the
\* group of each match, that is 19 or 20
ExtractAllYears(text) ==
    LET IsYear(i) ==
            /\ Boundary(text, i - 1)
            /\ OccursAt("19", text, i) \/ OccursAt("20", text, i)
            /\ RunEnd(text, i, Digits) = i + 3
            /\ Boundary(text, i + 3)
        starts == {i \in 1..Len(text) : IsYear(i)}
    IN  [k \in 1..Cardinality(starts) |->
            StrToNat(SubSeq(text, CHOOSE i \in starts :
                                      Cardinality({j \in starts : j <= i}) = k,
                            (CHOOSE i \in starts :
                                      Cardinality({j \in starts : j <= i}) = k) + 1))]

\* _calculate_experience_years, in whole years
CalculateExperienceYears(text) ==
    IF ExperienceYearsFound(Lower(text)) # {}
    THEN SetMax(ExperienceYearsFound(Lower(text)))
    ELSE IF Len(ExtractAllYears(text)) >= 2
    THEN SetMax(Range(ExtractAllYears(text))) - SetMin(Range(ExtractAllYears(text)))
    ELSE 0

\* a selection of nlp_service.soft_skills_db in its order; negotiation is
\* listed under two categories
soft_skills_db == <<"communication", "leadership", "teamwork", "negotiation", "negotiation">>

\* _extract_skills: list(set(...)) of the skills of the taxonomy and of the
\* soft skills found in the text, here in the order of their first listing
ExtractSkills(text) ==
    LET Found(skill) == SearchMention(Lower(text), Lower(skill))
    IN  [technical |-> Dedup(SelectSeq(taxonomy, Found)),
         soft |-> Dedup(SelectSeq(soft_skills_db, Found))]

\* NLPService._extract_soft_skills
ExtractSoftSkills(text) ==
    LET Found(skill) == IsSkillMentioned(text, skill)
    IN  SelectSeq(soft_skills_db, Found)


-----------------------------------------------------------------------------
(* Parsing one resume text and scoring the record against one job *)

\* texts of resumes; the first is that of Scenario A
ResumeTexts ==
    {"Jane Doe\njane@x.com\n5 years of experience in Python and React",
     "5 years of experience in Python and React. Teamwork, negotiation",
     "sql and AWS, 2+ years experience",
     "Experience: 10 years with java; communication",
     "worked 2019 to 2021 with c++, leadership and teamwork",
     "MBA, 4 years in sales",
     "Acme 1998 - 2021, sales",
     ""}

\* what _extract_education may have found in a text
EducationPool ==
    {<<>>,
     <<EduDict("BSc Computer Science", "MIT")>>,
     <<EduDict("Bachelor", "Institution not specified")>>,
     <<EduDict("Degree not specified", "Oxford University"),
       EduDict("Bachelor's degree in Computer Science", "Institution not specified")>>}

\* the record parse_cv_file builds from a text, given its education entries
ParsedCandidate(text, skills, education) ==
    [id |-> 1,
     skills |-> [kind |-> "dict", technical |-> skills.technical, soft |-> skills.soft],
     education |-> education,
     total_experience_years |-> CalculateExperienceYears(text) * 100,
     raw_text |-> text]

\* a job description with 13 keywords
description_builder ==
    "Python React developer to build web apps, design APIs, "
    \o "write tests, mentor juniors daily"

\* records read from the database: those of the batches, two that differ
\* from cand_mba in their technical skills only, and one whose text repeats
\* description_builder
StoredCandidates ==
    CandidatePool
    \cup {[cand_mba EXCEPT !.skills.technical = technical] :
             technical \in {<<"SQL">>, <<"aws", "Excel">>}}
    \cup {[cand_jane EXCEPT !.id = 5, !.raw_text = description_builder]}

\* a job whose soft skills are those _extract_soft_skills finds in its
\* description, and whose education requirement is that of Scenario D
job_negotiator ==
    [id |-> 6, title |-> "Buyer",
     description |-> "Negotiation and teamwork",
     required_skills |-> <<>>,
     preferred_skills |-> <<>>,
     education_requirements |-> <<"Bachelor's degree in Computer Science">>,
     soft_skills |-> ExtractSoftSkills(Lower("Negotiation and teamwork")),
     min_experience_years |-> None,
     max_experience_years |-> None]

\* the jobs of the batches, the job of Scenario A with no description and
\* with a longer one, job_mba with that description, and job_negotiator
ScoreJobs ==
    JobPool
    \cup {[job_scenario_a EXCEPT !.description = description] :
             description \in {"", description_builder}}
    \cup {[job_mba EXCEPT !.description = description_builder]}
    \cup {job_negotiator}

\* a text is about to be parsed, or a stored record is about to be scored
ScoreInit ==
    /\ \/ /\ score_text \in ResumeTexts
          /\ score_candidate = NoValue
          /\ score_pc = "parse"
       \/ /\ score_candidate \in StoredCandidates
          /\ score_text = score_candidate.raw_text
          /\ score_pc = "analyze"
    /\ score_job \in ScoreJobs
    /\ score_analysis = NoValue
    /\ score_result = NoValue
    /\ SharedInit /\ WalkIdle /\ KeywordsIdle /\ YearsIdle
    /\ ParseIdle /\ BatchIdle /\ ExperienceIdle /\ MentionIdle /\ RequirementsIdle
    /\ NameIdle

\* _parse_text_content: the skills and the years are those of the text
ParseResume ==
    /\ score_pc = "parse"
    /\ \E education \in EducationPool :
           score_candidate' = ParsedCandidate(score_text, ExtractSkills(score_text), education)
    /\ score_pc' = "analyze"
    /\ UNCHANGED <<score_text, score_job, score_analysis, score_result>>

\* the four analyses of _analyze_single_candidate
FourAnalyses(candidate_info, job_requirements) ==
    [skill |-> AnalyzeSkillsMatch(candidate_info, job_requirements),
     education |-> AnalyzeEducationMatch(candidate_info, job_requirements),
     experience |-> AnalyzeExperienceMatch(candidate_info, job_requirements),
     soft |-> AnalyzeSoftSkillsMatch(candidate_info, job_requirements)]

\* _analyze_single_candidate up to the four analyses; an exception leaves
\* the function
AnalyzeMatches ==
    /\ score_pc = "analyze"
    /\ IF ~ExtractCandidateInfo(score_candidate).ok
       THEN /\ score_result' = Raise(ExtractCandidateInfo(score_candidate).err)
            /\ score_pc' = "done"
            /\ UNCHANGED score_analysis
       ELSE /\ score_analysis' = FourAnalyses(ExtractCandidateInfo(score_candidate).val,
                                              ExtractJobRequirements(score_job))
            /\ score_pc' = "insights"
            /\ UNCHANGED score_result
    /\ UNCHANGED <<score_text, score_candidate, score_job>>

\* _analyze_single_candidate from the overall score on, with the default
\* weights
ScoreAnalyses ==
    /\ score_pc = "insights"
    /\ score_result' = CombineAnalyses(score_job, analyzer_default_weights,
                                       score_analysis.skill, score_analysis.education,
                                       score_analysis.experience, score_analysis.soft)
    /\ score_pc' = "done"
    /\ UNCHANGED <<score_text, score_candidate, score_job, score_analysis>>

ScoreNext ==
    \/ ParseResume
           /\ UNCHANGED <<parseVars, batchVars, expVars, mentionVars, reqVars, nameVars,
                          sharedVars, laterVars>>
    \/ AnalyzeMatches
           /\ UNCHANGED <<parseVars, batchVars, expVars, mentionVars, reqVars, nameVars,
                          sharedVars, laterVars>>
    \/ ScoreAnalyses
           /\ UNCHANGED <<parseVars, batchVars, expVars, mentionVars, reqVars, nameVars,
                          sharedVars, laterVars>>

SpecScore == ScoreInit /\ [][ScoreNext]_vars


(* Properties of the scoring of one record *)

\* the skills a record may have in addition to its own
ExtraSkills == {"SQL", "React", "Kubernetes"}

MaxExtraSkills == 2

\* the lists of at most MaxExtraSkills additional skills
ExtraSkillLists == UNION {[1..n -> ExtraSkills] : n \in 0..MaxExtraSkills}

\* the skill analysis of the record being scored once its technical skills
\* are extended by more, everything else being equal
SkillAnalysisWith(more) ==
    LET candidate_info == ExtractCandidateInfo(score_candidate).val
    IN  AnalyzeSkillsMatch([candidate_info EXCEPT !.technical_skills = @ \o more],
                           ExtractJobRequirements(score_job))

\* C11: for a fixed job, a record whose technical skills are a superset of
\* those of the record just analysed, and which is otherwise equal to it, has
\* a skill score at least as high
SupersetScoresNoLess ==
    score_analysis # NoValue =>
        \A more \in ExtraSkillLists :
            RLe(score_analysis.skill.score, SkillAnalysisWith(more).score)

\* an analysed record that an additional skill would score strictly higher
SupersetScoresMore ==
    /\ score_analysis # NoValue
    /\ \E more \in ExtraSkillLists :
           ~RLe(SkillAnalysisWith(more).score, score_analysis.skill.score)


-----------------------------------------------------------------------------
(* A batch, the scoring of one more record against the same job, and the
   parsing of a job description, interleaved on one analyzer, one parser and
   one taxonomy *)

\* the batches scored while the other calls run
InterleavedBatches ==
    {<<cand_jane, cand_list_skills>>, <<cand_mba, cand_null_degree>>}

InterleavedInit ==
    /\ BatchStart(InterleavedBatches, {job_sql, job_mba}, {None, Some([skills |-> Rat(1, 2)])})
    /\ \/ /\ score_text \in {"5 years of experience in Python and React. Teamwork, negotiation"}
          /\ score_candidate = NoValue
          /\ score_pc = "parse"
       \/ /\ score_candidate \in {cand_mba}
          /\ score_text = score_candidate.raw_text
          /\ score_pc = "analyze"
    /\ score_job = job_posting
    /\ score_analysis = NoValue
    /\ score_result = NoValue
    /\ req_description = "Python REQUIRED. java is a plus"
    /\ req_pc = "call"
    /\ req_result = NoValue
    /\ SharedInit /\ WalkIdle /\ KeywordsIdle /\ YearsIdle
    /\ ParseIdle /\ ExperienceIdle /\ MentionIdle /\ NameIdle

InterleavedNext == BatchNext \/ ScoreNext \/ RequirementsNext

SpecInterleaved == InterleavedInit /\ [][InterleavedNext]_vars

\* the inputs of the calls and the state the calls share
InputsAndSharedState ==
    <<candidates, job_posting, custom_weights, score_job, req_description,
      analyzer_default_weights, taxonomy>>

\* the results of the calls are those of each call running alone with the
\* analyzer's weights and the taxonomy as constructed
AsWhenRunAlone ==
    /\ analyzer_default_weights = default_weights
    /\ taxonomy = all_technical_skills
    /\ batch_pc # "loop" =>
           Timeless(results)
           = Timeless(LoopResults(candidates, job_posting, Weights(custom_weights)))
    /\ score_pc = "done" =>
           score_result = AnalyzeSingleCandidate(score_candidate, score_job, default_weights)
    /\ score_pc # "parse" /\ score_candidate.raw_text = score_text =>
           \/ score_candidate \in StoredCandidates
           \/ score_candidate.skills = ParsedCandidate(score_text, ExtractSkills(score_text),
                                                      <<>>).skills
    /\ req_pc = "done" => req_result = ParseJobRequirements(req_description)

\* C13: no step of a batch, of the scoring of a record or of the parsing of a
\* resume or of a job description changes a candidate record, the job, the
\* custom or the default weights or the taxonomy, and however the steps of
\* the calls interleave each call's result is the one it gives alone
ScoringMutatesNothing ==
    [][InputsAndSharedState' = InputsAndSharedState]_vars /\ []AsWhenRunAlone

\* the batch has returned a degraded and a scored entry while the other
\* record was scored and the description parsed
InterleavedCallsFinished ==
    /\ batch_pc = "done"
    /\ Len(results) = 2
    /\ IsFailedAnalysis(results[2])
    /\ ~IsFailedAnalysis(results[1])
    /\ score_pc = "done"
    /\ score_result.ok
    /\ req_pc = "done"


-----------------------------------------------------------------------------
(* Properties of the parsing and scoring of one resume *)

\* the record being scored is the one parse_cv_file builds from score_text
IsParsedRecord ==
    \E education \in EducationPool :
        score_candidate = ParsedCandidate(score_text, ExtractSkills(score_text), education)

\* the job of Scenario A, whatever its description and preferred skills
IsScenarioAJob(job) ==
    /\ job.required_skills = <<"python", "react">>
    /\ job.min_experience_years = Some(3)
    /\ job.max_experience_years = None
    /\ job.education_requirements = <<>>
    /\ job.soft_skills = <<>>

\* a resume stating the sentence of Scenario A has been parsed and scored
\* against a job of Scenario A
ScenarioAScored ==
    /\ score_pc = "done"
    /\ IsParsedRecord
    /\ IsSubstring("5 years of experience in Python and React", score_text)
    /\ IsScenarioAJob(score_job)

\* what Scenario A expects of the result
ScenarioAExpected ==
    /\ score_result.ok
    /\ {"python", "react"} \subseteq score_result.val.matched_skills
    /\ score_result.val.experience_match_score = 100 * 100
    /\ score_result.val.overall_score >= ShortlistThreshold * 100
    /\ score_result.val.match_status = "shortlisted"

\* C14 (as stated): a resume stating '5 years of experience in Python and
\* React', scored with the default weights against a job requiring python and
\* react and at least 3 years, with no maximum, no education and no soft-skill
\* requirements, matches python and react, has experience score 100, an
\* overall score of at least 50 and the status shortlisted
ScenarioAShortlisted == ScenarioAScored => ScenarioAExpected

\* C14 (amended): the same, for a job with an empty description and no
\* preferred skills
ScenarioAShortlistedBareJob ==
    ScenarioAScored /\ score_job.description = "" /\ score_job.preferred_skills = <<>>
        => ScenarioAExpected

\* Scenario A has been scored against the job with an empty description and
\* the overall score is 66.25
ScenarioAScoredBareJob ==
    /\ ScenarioAScored
    /\ score_job.description = ""
    /\ score_job.preferred_skills = <<>>
    /\ score_candidate.total_experience_years = 5 * 100
    /\ score_result.ok
    /\ score_result.val.overall_score = 6625


\* the four sub-scores of the record that has been scored
SubScores ==
    [skill |-> score_analysis.skill.score,
     education |-> score_analysis.education.val.score,
     experience |-> score_analysis.experience.score,
     soft |-> score_analysis.soft.score]

\* the strength that _generate_ai_insights names for each sub-score
StrengthOf ==
    [skill |-> "Strong technical skill alignment",
     education |-> "Educational background aligns well",
     experience |-> "Meets experience requirements",
     soft |-> "Good soft skills match"]

\* the concern that _generate_ai_insights names for a sub-score
ConcernOf ==
    [skill |-> "Missing key technical skills",
     education |-> "Education requirements not fully met",
     experience |-> "Insufficient relevant experience"]

\* C16 (as stated): in every result that is not degraded, each of the four
\* sub-scores that is at least 80 contributes its strength and each of the
\* four that is below 50 contributes a concern of its own
EverySubScoreHasStrengthAndConcern ==
    score_pc = "done" /\ score_result.ok =>
        /\ \A sub \in DOMAIN SubScores :
               RLe(RInt(StrengthThreshold), SubScores[sub])
                   <=> StrengthOf[sub] \in Range(score_result.val.strengths)
        /\ \A sub \in DOMAIN ConcernOf :
               ~RLe(RInt(ConcernThreshold), SubScores[sub])
                   <=> ConcernOf[sub] \in Range(score_result.val.concerns)
        /\ Len(score_result.val.concerns)
               = Cardinality({sub \in DOMAIN SubScores :
                                 ~RLe(RInt(ConcernThreshold), SubScores[sub])})

\* a result whose soft-skills score is below 50 and whose concerns are all
\* about the other sub-scores
LowSoftSkillsNoConcern ==
    /\ score_pc = "done"
    /\ score_result.ok
    /\ ~RLe(RInt(ConcernThreshold), SubScores.soft)
    /\ Range(score_result.val.concerns) \subseteq Range(ConcernOf)
    /\ \A sub \in DOMAIN ConcernOf :
           ~RLe(RInt(ConcernThreshold), SubScores[sub])
               <=> ConcernOf[sub] \in Range(score_result.val.concerns)
    /\ \A sub \in DOMAIN SubScores :
           RLe(RInt(StrengthThreshold), SubScores[sub])
               <=> StrengthOf[sub] \in Range(score_result.val.strengths)


\* the recommendations the claim gives a result with this overall score (in
\* hundredths) and these missing skills
RecommendationsFor(overall_score, missing_skills) ==
    IF overall_score >= InterviewThreshold * 100
    THEN <<"Proceed with interview scheduling">>
    ELSE IF overall_score >= ShortlistThreshold * 100
    THEN <<"Consider for phone screening">>
         \o (IF missing_skills # <<>>
             THEN <<"Assess missing technical skills during interview">> ELSE <<>>)
    ELSE <<"Not recommended for this position">>

\* C17 (as stated): the recommendations of every result that is not degraded
\* are those its overall score selects: proceeding to interview from 70,
\* phone screening from 50 to below 70, with the advice to assess missing
\* skills exactly when some are missing, and the recommendation against the
\* candidate below 50; a result is rejected exactly when it recommends
\* against the candidate
RecommendationFollowsScore ==
    score_pc = "done" /\ score_result.ok =>
        /\ score_result.val.recommendations
               = RecommendationsFor(score_result.val.overall_score,
                                    score_result.val.missing_skills)
        /\ score_result.val.match_status = "rejected"
               <=> "Not recommended for this position"
                       \in Range(score_result.val.recommendations)

\* a result whose overall score is 50.0 and which recommends against the
\* candidate
RecommendedAgainstAtFifty ==
    /\ score_pc = "done"
    /\ score_result.ok
    /\ score_result.val.overall_score = ShortlistThreshold * 100
    /\ score_result.val.recommendations = <<"Not recommended for this position">>
    /\ score_result.val.match_status = "rejected"


\* the keywords mined from the description of the job being scored against
MinedKeywords == ExtractJobKeywords(Lower(score_job.description))

\* the mined keywords found in the lower-cased text of the resume
KeywordsFound == {k \in MinedKeywords : IsSubstring(k, Lower(score_candidate.raw_text))}

\* the required and preferred skills, lower-cased, that are among the
\* candidate's technical skills or occur in the text of the resume
SkillsFound ==
    {skill \in Range(LowerAll(score_job.required_skills \o score_job.preferred_skills)) :
        \/ skill \in Range(LowerAll(ExtractCandidateInfo(score_candidate).val.technical_skills))
        \/ IsSubstring(skill, Lower(score_candidate.raw_text))}

\* the number of terms of the job
JobTerms ==
    Cardinality(MinedKeywords) + Len(score_job.required_skills)
    + Len(score_job.preferred_skills)

\* C18: the skill score is 30 when the job has no mined keyword and no
\* required or preferred skill; otherwise it is the least of 100 and
\* match_rate * 60 + min(30, 2 * keywords found) + 15, where match_rate is the
\* number of distinct matched keywords and skills over the number of terms
SkillScoreFormula ==
    score_analysis # NoValue =>
        IF JobTerms = 0
        THEN score_analysis.skill.score = RInt(30)
        ELSE \E value \in {Rat(60 * Cardinality(KeywordsFound \cup SkillsFound)
                                + JobTerms * (Min(30, 2 * Cardinality(KeywordsFound)) + 15),
                                JobTerms)} :
                 score_analysis.skill.score
                     = IF RLe(value, RInt(100)) THEN value ELSE RInt(100)

\* a skill score between the base and the cap, for a job some of whose mined
\* keywords and some of whose skills the resume has
SkillScoreFromRateAndBoost ==
    /\ score_analysis # NoValue
    /\ KeywordsFound \cap SkillsFound # {}
    /\ KeywordsFound \ SkillsFound # {}
    /\ Cardinality(KeywordsFound \cup SkillsFound) < JobTerms
    /\ ~RLe(RInt(100), score_analysis.skill.score)


\* the degree and institution strings of the record being scored, and the
\* text of its entries that are not dicts, lower-cased
EducationStrings ==
    UNION {IF edu.kind = "dict"
           THEN {Lower(edu.degree), Lower(edu.institution)}
           ELSE {Lower(edu.text)} : edu \in Range(score_candidate.education)}

\* the positions of the required phrases that contain one of the strings or
\* are contained in one
PhrasesMet ==
    {p \in DOMAIN score_job.education_requirements :
        \E keyword \in EducationStrings :
            \/ IsSubstring(keyword, Lower(score_job.education_requirements[p]))
            \/ IsSubstring(Lower(score_job.education_requirements[p]), keyword)}

\* C19: whenever the education analysis returns, its score is 25 for a job
\* without education requirements and otherwise 100 times the share of the
\* required phrases that contain, or are contained in, a degree or
\* institution string of the candidate, whatever the case of the letters; a
\* candidate without education entries scores 0 against any requirement
\* and the result carries the education concern
EducationScoreFormula ==
    score_analysis # NoValue /\ score_analysis.education.ok =>
        /\ score_analysis.education.val.score
               = IF score_job.education_requirements = <<>> THEN RInt(25)
                 ELSE Rat(100 * Cardinality(PhrasesMet),
                          Len(score_job.education_requirements))
        /\ score_candidate.education = <<>> /\ score_job.education_requirements # <<>> =>
               /\ score_analysis.education.val.score = RInt(0)
               /\ score_pc = "done" =>
                      /\ score_result.ok
                      /\ score_result.val.education_match_score = 0
                      /\ "Education requirements not fully met"
                             \in Range(score_result.val.concerns)

\* Scenario D: a record without education entries has been scored against
\* the job requiring a Bachelor's degree in Computer Science
ScenarioDScored ==
    /\ score_pc = "done"
    /\ score_candidate.education = <<>>
    /\ score_job.education_requirements = <<"Bachelor's degree in Computer Science">>
    /\ score_result.ok
    /\ score_result.val.education_match_score = 0
    /\ "Education requirements not fully met" \in Range(score_result.val.concerns)


\* the soft skills the job requires and those of the record, lower-cased
RequiredSoftSkills == Range(LowerAll(score_job.soft_skills))
CandidateSoftSkills ==
    Range(LowerAll(ExtractCandidateInfo(score_candidate).val.soft_skills))

\* the soft skills of the job are those parse_job_requirements finds in its
\* description
SoftSkillsAsParsed == score_job.soft_skills = ExtractSoftSkills(Lower(score_job.description))

\* C20 (as stated): for a job whose soft-skill list the job-requirement
\* parser produced, the soft-skills score is 50 when the list is empty and
\* otherwise 100 times the number of required soft skills the candidate has
\* over the number of required soft skills, whatever the case of the letters
SoftSkillsScoreFormula ==
    score_analysis # NoValue /\ SoftSkillsAsParsed =>
        score_analysis.soft.score
            = IF score_job.soft_skills = <<>> THEN RInt(50)
              ELSE Rat(100 * Cardinality(RequiredSoftSkills \cap CandidateSoftSkills),
                       Cardinality(RequiredSoftSkills))

\* a parsed resume with one of the two soft skills a parsed job requires,
\* scored 33.33 for soft skills because the parser listed the other twice
HalfTheSoftSkillsScoreAThird ==
    /\ score_analysis # NoValue
    /\ IsParsedRecord
    /\ SoftSkillsAsParsed
    /\ Cardinality(RequiredSoftSkills) = 2
    /\ Cardinality(RequiredSoftSkills \cap CandidateSoftSkills) = 1
    /\ Len(score_job.soft_skills) = 3
    /\ score_analysis.soft.score = Rat(100, 3)


\* the 4-digit year tokens beginning 19 or 20 of the text being parsed
YearTokens ==
    {StrToNat(SubSeq(score_text, i, i + 3)) :
        i \in {j \in 1..Len(score_text) :
                  /\ Boundary(score_text, j - 1)
                  /\ OccursAt("19", score_text, j) \/ OccursAt("20", score_text, j)
                  /\ RunEnd(score_text, j, Digits) = j + 3
                  /\ Boundary(score_text, j + 3)}}

\* C21 (as stated): the total_experience_years of a parsed resume is the
\* greatest N of the explicit experience phrases of the text when there is
\* one; otherwise, when the text has at least two distinct year tokens, the
\* latest of them minus the earliest; otherwise 0
ExperienceYearsAsSpecified ==
    score_pc # "parse" /\ IsParsedRecord =>
        score_candidate.total_experience_years
            = 100 * (IF ExperienceYearsFound(Lower(score_text)) # {}
                     THEN SetMax(ExperienceYearsFound(Lower(score_text)))
                     ELSE IF Cardinality(YearTokens) >= 2
                     THEN SetMax(YearTokens) - SetMin(YearTokens)
                     ELSE 0)

\* a parsed resume without experience phrase whose year tokens are 1998 and
\* 2021 and whose total_experience_years is 1
CenturiesSubtracted ==
    /\ score_pc # "parse"
    /\ IsParsedRecord
    /\ ExperienceYearsFound(Lower(score_text)) = {}
    /\ YearTokens = {1998, 2021}
    /\ score_candidate.total_experience_years = 1 * 100


-----------------------------------------------------------------------------
(* The while loops of CVParser._extract_work_experience and
   CVParser._extract_education *)

\* \b(19|20)\d{2}\b matches text at position i
YearAt(text, i) ==
    /\ Boundary(text, i - 1)
    /\ OccursAt("19", text, i) \/ OccursAt("20", text, i)
    /\ RunEnd(text, i + 2, Digits) >= i + 3
    /\ Boundary(text, i + 3)

\* re.findall(r'\b(19|20)\d{2}\b', text): the group of each match, that is
\* "19" or "20", converted by int
RECURSIVE FindAllYears(_, _)
FindAllYears(text, i) ==
    IF i > Len(text) THEN <<>>
    ELSE IF YearAt(text, i)
    THEN <<StrToNat(SubSeq(text, i, i + 1))>> \o FindAllYears(text, i + 4)
    ELSE FindAllYears(text, i + 1)

\* (?:\b(19|20)\d{2}\b|present|current) matches the lower-cased text at
\* position t: the last position of the match, or 0
DateEndAt(text, t) ==
    IF YearAt(text, t) THEN t + 3
    ELSE IF OccursAt("present", text, t) \/ OccursAt("current", text, t) THEN t + 6
    ELSE 0

\* date_pattern matches the lower-cased text from position i: the last
\* position of the match, or 0.  .*? is lazy: the separator taken is the first
\* one after which the end of the range follows.  The pool writes every dash
\* as "-"
DateMatchEnd(text, i) ==
    LET seps == {k \in (i + 4)..Len(text) :
                    \/ OccursAt("-", text, k)
                         /\ DateEndAt(text, SkipSpaces(text, k + 1)) # 0
                    \/ OccursAt("to", text, k)
                         /\ DateEndAt(text, SkipSpaces(text, k + 2)) # 0}
        k == SetMin(seps)
    IN  IF ~YearAt(text, i) \/ seps = {} THEN 0
        ELSE DateEndAt(text, SkipSpaces(text, IF OccursAt("-", text, k) THEN k + 1 ELSE k + 2))

\* re.search(date_pattern, line, re.IGNORECASE).group(0), or "" when there
\* is no match
DateRange(line) ==
    LET starts == {i \in 1..Len(line) : DateMatchEnd(Lower(line), i) # 0}
    IN  IF starts = {} THEN ""
        ELSE SubSeq(line, SetMin(starts), DateMatchEnd(Lower(line), SetMin(starts)))

\* a selection of job_title_keywords
job_title_keywords == <<"engineer", "developer", "manager", "senior", "lead">>

\* a selection of the words of company_patterns; \b(inc\.?|...)\b matches
\* exactly where \b(inc|...)\b does
company_words == <<"inc", "ltd", "company", "solutions", "group">>

\* any(keyword in text for keyword in keywords)
AnyIn(keywords, text) == \E k \in DOMAIN keywords : IsSubstring(keywords[k], text)

\* the company the loop over section_lines[i : i + 3] finds, or None
RECURSIVE CompanyFrom(_, _, _, _)
CompanyFrom(section_lines, j, last, organizations) ==
    IF j > last THEN None
    ELSE LET check_line == section_lines[j]
             orgs == {o \in DOMAIN organizations :
                         IsSubstring(Lower(organizations[o]), Lower(check_line))}
         IN  IF \E w \in DOMAIN company_words :
                     SearchMention(Lower(check_line), company_words[w])
             THEN Some(Strip(check_line))
             ELSE IF orgs # {} THEN Some(organizations[SetMin(orgs)])
             ELSE CompanyFrom(section_lines, j + 1, last, organizations)

\* the dates the loop over section_lines[i : i + 3] takes from the first
\* line with a date range; end_years[-1] is a group of re.findall
RECURSIVE DatesFrom(_, _, _, _)
DatesFrom(section_lines, j, last, now) ==
    IF j > last THEN [start_date |-> None, end_date |-> None]
    ELSE LET range == DateRange(section_lines[j])
         IN  IF range = "" THEN DatesFrom(section_lines, j + 1, last, now)
             ELSE [start_date |-> Some(StrToNat(SubSeq(range, 1, 4))),
                   end_date |->
                       IF \/ IsSubstring("present", Lower(range))
                          \/ IsSubstring("current", Lower(range))
                       THEN Some(now)
                       ELSE Some(FindAllYears(range, 1)[Len(FindAllYears(range, 1))])]

\* desc_start when the line of the entry has no date range: past the header
\* lines, up to and including the first of them with a date range
RECURSIVE DescStart(_, _, _)
DescStart(section_lines, desc_start, last) ==
    IF desc_start > last THEN desc_start
    ELSE IF DateRange(section_lines[desc_start]) # "" THEN desc_start + 1
    ELSE DescStart(section_lines, desc_start + 1, last)

\* description_lines: the lines from j to last, up to the next job title
\* that is no bullet point or the next date range; section lines are
\* stripped and not empty
RECURSIVE DescriptionLines(_, _, _)
DescriptionLines(section_lines, j, last) ==
    IF j > last THEN <<>>
    ELSE LET desc_line == Strip(section_lines[j])
         IN  IF /\ AnyIn(job_title_keywords, Lower(desc_line))
                /\ desc_line = "" \/ CharAt(desc_line, 1) \notin {"-", "*"}
             THEN <<>>
             ELSE IF DateRange(desc_line) # "" THEN <<>>
             ELSE (IF desc_line # "" THEN <<desc_line>> ELSE <<>>)
                  \o DescriptionLines(section_lines, j + 1, last)

\* the lookahead of both loops: min(i + 3, len(section_lines)), as the last
\* index counted from 1
LookAhead == 3

\* the lines of a description that are read, and those that are kept
DescriptionRead == 10
DescriptionKept == 3

\* duration_months
DurationMonths(start_date, end_date) ==
    IF Truthy(start_date) /\ Truthy(end_date)
    THEN Max(1, (end_date.v - start_date.v) * 12)
    ELSE 0

\* the entry appended for the line at i, given its dates, its company and
\* its description lines
WorkEntry(position, company, dates, description_lines) ==
    [position |-> position,
     company |-> IF company.some THEN company.v ELSE "Not specified",
     start_date |-> dates.start_date,
     end_date |-> dates.end_date,
     description |-> Join(SubSeq(description_lines, 1,
                                 Min(DescriptionKept, Len(description_lines))), " "),
     duration_months |-> DurationMonths(dates.start_date, dates.end_date)]


\* line_lower == header or line_lower.startswith(header + ':')
IsHeader(line, headers) ==
    LET line_lower == Strip(Lower(line))
    IN  \E h \in DOMAIN headers :
            line_lower = headers[h] \/ OccursAt(headers[h] \o ":", line_lower, 1)

\* lines[section_start : section_end]: the lines after the first header of
\* the section, up to the next header of another section after it; all the
\* lines when there is no header of the section
SectionLines(lines, headers, next_section_headers) ==
    LET starts == {i \in DOMAIN lines : IsHeader(lines[i], headers)}
        ends == {i \in DOMAIN lines :
                    i > SetMin(starts) /\ IsHeader(lines[i], next_section_headers)}
    IN  IF starts = {} THEN lines
        ELSE SubSeq(lines, SetMin(starts) + 1,
                    IF ends = {} THEN Len(lines) ELSE SetMin(ends) - 1)

\* a selection of experience_headers and of the next_section_headers of
\* _extract_work_experience
experience_headers == <<"work experience", "experience", "employment">>
work_next_section_headers == <<"education", "skills">>

\* a selection of education_headers and of the next_section_headers of
\* _extract_education
education_headers == <<"education", "qualifications">>
education_next_section_headers == <<"experience", "skills">>

\* a selection of the patterns of degree_keywords, and of institution_keywords
degree_patterns == <<"bachelor", "bsc", "master", "mba", "diploma">>
institution_keywords == <<"university", "college", "institute", "academy">>

\* re.search(rf'\b{re.escape(pattern)}\b', line_lower) for some pattern
DegreeFound(line_lower) ==
    \E p \in DOMAIN degree_patterns : SearchMention(line_lower, degree_patterns[p])

\* year: the last group of re.findall on the first line of
\* section_lines[i : i + 3] that has a match, or None
RECURSIVE YearFrom(_, _, _)
YearFrom(section_lines, j, last) ==
    IF j > last THEN None
    ELSE LET year_matches == FindAllYears(section_lines[j], 1)
         IN  IF year_matches # <<>> THEN Some(year_matches[Len(year_matches)])
             ELSE YearFrom(section_lines, j + 1, last)

\* institution: from the first line of section_lines[i : i + 3] that has a
\* keyword of an institution (the line) or names an organization (its name)
RECURSIVE InstitutionFrom(_, _, _, _)
InstitutionFrom(section_lines, j, last, organizations) ==
    IF j > last THEN None
    ELSE LET check_lower == Lower(section_lines[j])
             orgs == {o \in DOMAIN organizations :
                         IsSubstring(Lower(organizations[o]), check_lower)}
         IN  IF AnyIn(institution_keywords, check_lower) THEN Some(Strip(section_lines[j]))
             ELSE IF orgs # {} THEN Some(organizations[SetMin(orgs)])
             ELSE InstitutionFrom(section_lines, j + 1, last, organizations)

\* the degree found looking backwards: the first of the two lines before i
\* that has a degree keyword
DegreeBefore(section_lines, i) ==
    LET found == {j \in Max(1, i - 2)..(i - 1) : DegreeFound(Lower(section_lines[j]))}
    IN  IF found = {} THEN None ELSE Some(Strip(section_lines[SetMin(found)]))

\* the entries the iteration for line i appends to education
EducationEntries(section_lines, i, organizations) ==
    LET line == Strip(section_lines[i])
        last == Min(i + LookAhead - 1, Len(section_lines))
        year == YearFrom(section_lines, i, last)
        found == InstitutionFrom(section_lines, i, last, organizations)
        degree == IF DegreeFound(Lower(line)) THEN Some(line)
                  ELSE IF found.some THEN DegreeBefore(section_lines, i)
                  ELSE None
        same == degree.some /\ found.some /\ degree.v = found.v
        keep_institution == same => AnyIn(institution_keywords, Lower(degree.v))
        keep_degree == same => ~AnyIn(institution_keywords, Lower(degree.v))
    IN  IF degree.some \/ found.some
        THEN <<[degree |-> IF degree.some /\ keep_degree THEN degree.v
                           ELSE "Degree not specified",
                institution |-> IF found.some /\ keep_institution THEN found.v
                                ELSE "Institution not specified",
                year |-> year]>>
        ELSE <<>>

\* i = min(search_range, i + 1), with search_range = min(i + 3, len(section_lines))
NextLineStuck(search_range, i) == Min(search_range, i)
NextLine(search_range, i) == Min(search_range, i + 1)

\* unique_education: the first entry of each (degree, institution) pair,
\* compared in lower case
RECURSIVE UniqueEducation(_)
UniqueEducation(education) ==
    IF education = <<>> THEN <<>>
    ELSE LET rest == UniqueEducation(SubSeq(education, 1, Len(education) - 1))
             edu == education[Len(education)]
         IN  IF \E k \in DOMAIN rest :
                    /\ Lower(rest[k].degree) = Lower(edu.degree)
                    /\ Lower(rest[k].institution) = Lower(edu.institution)
             THEN rest ELSE Append(rest, edu)

\* the documents whose lines the extractors walk: every list of at most
\* MaxWalkLines lines of the pool of the extractor, and a longer document
MaxWalkLines == 3

WorkLinePool == {"Software Engineer", "Acme Inc", "2019 - 2021", "Developer 2015 to present"}

EducationLinePool == {"Bachelor of Science", "University of Colombo 2015 - 2019", "Acme, 2011", "Diploma"}

Resume == <<"Jane Doe", "Experience", "Senior Developer", "Acme Group", "2001 - 2019", "Built APIs", "- Lead developer of tools", "Manager 1998-2000", "Education:", "MBA", "Open University", "2021", "Skills", "Python">>

SeqsUpTo(pool, n) == UNION {[1..k -> pool] : k \in 0..n}

WalkInit ==
    /\ walk_kind \in {"education", "work"}
    /\ walk_lines \in {Resume} \cup SeqsUpTo(IF walk_kind = "work" THEN WorkLinePool ELSE EducationLinePool, MaxWalkLines)
    /\ walk_orgs \in {<<>>, <<"Acme">>}
    /\ walk_now \in {2026}
    /\ walk_i = 1
    /\ walk_entries = <<>>
    /\ walk_pc = "section"
    /\ walk_steps = 0
    /\ ParseIdle /\ BatchIdle /\ ExperienceIdle /\ MentionIdle /\ RequirementsIdle
    /\ NameIdle /\ ScoreIdle /\ SharedInit /\ KeywordsIdle /\ YearsIdle

\* the section of the document is found; _extract_work_experience returns
\* at once when it is empty
FindSection ==
    /\ walk_pc = "section"
    /\ walk_lines' = IF walk_kind = "work"
                      THEN SectionLines(walk_lines, experience_headers, work_next_section_headers)
                      ELSE SectionLines(walk_lines, education_headers, education_next_section_headers)
    /\ walk_pc' = IF walk_kind = "work" /\ walk_lines' = <<>> THEN "done" ELSE "loop"
    /\ UNCHANGED <<walk_kind, walk_orgs, walk_now, walk_i, walk_entries, walk_steps>>

\* one iteration of the while loop of _extract_work_experience; the values
\* of the iteration are bound once each
WorkStep ==
    /\ walk_pc = "loop" /\ walk_kind = "work" /\ walk_i <= Len(walk_lines)
    /\ \E line \in {Strip(walk_lines[walk_i])}, last \in {Min(walk_i + LookAhead - 1, Len(walk_lines))} :
       \E dates_in_line \in {DateRange(line) # ""} :
       \E desc_start \in {IF dates_in_line THEN walk_i + 1 ELSE DescStart(walk_lines, walk_i + 1, last)} :
       \E description_lines \in {DescriptionLines(walk_lines, desc_start, Min(desc_start + DescriptionRead - 1, Len(walk_lines)))} :
           IF line = "" THEN walk_i' = walk_i + 1 /\ UNCHANGED walk_entries
           ELSE IF AnyIn(job_title_keywords, Lower(line)) \/ dates_in_line
           THEN /\ walk_entries' = Append(walk_entries, WorkEntry(line, CompanyFrom(walk_lines, walk_i, last, walk_orgs), DatesFrom(walk_lines, walk_i, last, walk_now), description_lines))
                /\ walk_i' = desc_start + Len(description_lines)
           ELSE walk_i' = walk_i + 1 /\ UNCHANGED walk_entries
    /\ walk_steps' = walk_steps + 1
    /\ UNCHANGED <<walk_kind, walk_lines, walk_orgs, walk_now, walk_pc>>

\* one iteration of the while loop of _extract_education
EducationStep ==
    /\ walk_pc = "loop" /\ walk_kind = "education" /\ walk_i <= Len(walk_lines)
    /\ \E line \in {Strip(walk_lines[walk_i])} :
           IF line = "" THEN walk_i' = walk_i + 1 /\ UNCHANGED walk_entries
           ELSE IF DegreeFound(Lower(line)) \/ AnyIn(institution_keywords, Lower(line))
           THEN /\ walk_entries' = walk_entries \o EducationEntries(walk_lines, walk_i, walk_orgs)
                /\ walk_i' = NextLine(Min(walk_i + LookAhead, Len(walk_lines) + 1), walk_i)
           ELSE walk_i' = walk_i + 1 /\ UNCHANGED walk_entries
    /\ walk_steps' = walk_steps + 1
    /\ UNCHANGED <<walk_kind, walk_lines, walk_orgs, walk_now, walk_pc>>

\* the loop is left and the entries are returned, those of education
\* without duplicates
WalkReturn ==
    /\ walk_pc = "loop" /\ walk_i > Len(walk_lines)
    /\ walk_entries' = IF walk_kind = "education" THEN UniqueEducation(walk_entries) ELSE walk_entries
    /\ walk_pc' = "done"
    /\ UNCHANGED <<walk_kind, walk_lines, walk_orgs, walk_now, walk_i, walk_steps>>

WalkNext ==
    \/ FindSection /\ UNCHANGED <<parseVars, batchVars, expVars, mentionVars, reqVars, nameVars, scoreVars, sharedVars, keywordVars, yearsVars>>
    \/ WorkStep /\ UNCHANGED <<parseVars, batchVars, expVars, mentionVars, reqVars, nameVars, scoreVars, sharedVars, keywordVars, yearsVars>>
    \/ EducationStep /\ UNCHANGED <<parseVars, batchVars, expVars, mentionVars, reqVars, nameVars, scoreVars, sharedVars, keywordVars, yearsVars>>
    \/ WalkReturn /\ UNCHANGED <<parseVars, batchVars, expVars, mentionVars, reqVars, nameVars, scoreVars, sharedVars, keywordVars, yearsVars>>

SpecWalk == WalkInit /\ [][WalkNext]_vars


\* the 4-digit years of a text, in order
RECURSIVE FourDigitYears(_, _)
FourDigitYears(text, i) ==
    IF i > Len(text) THEN <<>>
    ELSE IF YearAt(text, i)
    THEN <<StrToNat(SubSeq(text, i, i + 3))>> \o FourDigitYears(text, i + 4)
    ELSE FourDigitYears(text, i + 1)

\* the date range matched for the entry of line i: that of the first line
\* of the lookahead that has one, or ""
MatchedRange(section_lines, i) ==
    LET with_range == {j \in i..Min(i + LookAhead - 1, Len(section_lines)) :
                          DateRange(section_lines[j]) # ""}
    IN  IF with_range = {} THEN "" ELSE DateRange(section_lines[SetMin(with_range)])

\* the start year, end year and duration the entry of a date range is to have
DatesOfRange(range, now) ==
    LET years == FourDigitYears(range, 1)
        start_year == years[1]
        end_year == IF IsSubstring("present", Lower(range)) \/ IsSubstring("current", Lower(range))
                    THEN now ELSE years[Len(years)]
    IN  [start_date |-> Some(start_year), end_date |-> Some(end_year),
         duration_months |-> Max(1, (end_year - start_year) * 12)]

\* C22: every work-experience entry extracted with a date range has the
\* first year of the matched range as its start year, the last year of the
\* range (the current calendar year for "present" or "current") as its end
\* year, and max(1, (end year - start year) * 12) as its duration in months;
\* an entry without a date range has the duration 0
WorkDatesFromMatchedRange ==
    [][walk_kind = "work" /\ Len(walk_entries') > Len(walk_entries) =>
          LET entry == walk_entries'[Len(walk_entries')]
              range == MatchedRange(walk_lines, walk_i)
          IN  IF range = "" THEN entry.duration_months = 0
              ELSE /\ entry.start_date = DatesOfRange(range, walk_now).start_date
                   /\ entry.end_date = DatesOfRange(range, walk_now).end_date
                   /\ entry.duration_months = DatesOfRange(range, walk_now).duration_months]_vars

\* C22: the entry of the range "2019 - 2021" ends in the year 20 and lasts
\* one month
EndYearIsACentury ==
    /\ walk_kind = "work" /\ walk_pc = "done"
    /\ \E k \in DOMAIN walk_entries :
           /\ walk_entries[k].start_date = Some(2019)
           /\ walk_entries[k].end_date = Some(20)
           /\ walk_entries[k].duration_months = 1


\* the 4-digit years on the lines of the lookahead that starts at line i
WindowYears(section_lines, i) ==
    UNION {Range(FourDigitYears(section_lines[j], 1)) :
               j \in i..Min(i + LookAhead - 1, Len(section_lines))}

\* the year an education entry of line i is to have: the last 4-digit year
\* of the first line of the lookahead that has one
GraduationYear(section_lines, i) ==
    LET with_year == {j \in i..Min(i + LookAhead - 1, Len(section_lines)) :
                         FourDigitYears(section_lines[j], 1) # <<>>}
        years == FourDigitYears(section_lines[SetMin(with_year)], 1)
    IN  IF with_year = {} THEN None ELSE Some(years[Len(years)])

\* C23: the year of every education entry is a 4-digit year that begins
\* with 19 or 20 and stands in the lookahead that starts at the line of the
\* entry, the last one of the first line that has one, and the entry has no
\* year only when the lookahead has no such year
EducationYearFromWindow ==
    [][walk_kind = "education" /\ walk_pc = "loop" /\ Len(walk_entries') > Len(walk_entries) =>
          LET entry == walk_entries'[Len(walk_entries')]
          IN  /\ entry.year = GraduationYear(walk_lines, walk_i)
              /\ entry.year.some => entry.year.v \in WindowYears(walk_lines, walk_i)
              /\ ~entry.year.some => WindowYears(walk_lines, walk_i) = {}]_vars

\* C23: the entry of "University of Colombo 2015 - 2019" has the year 20
GraduationYearIsACentury ==
    /\ walk_kind = "education" /\ walk_pc = "done"
    /\ \E k \in DOMAIN walk_entries :
           /\ walk_entries[k].institution = "University of Colombo 2015 - 2019"
           /\ walk_entries[k].year = Some(20)


\* every iteration of a walk moves the line index forward by at least one
WalkAdvances == [][walk_steps' > walk_steps => walk_i' >= walk_i + 1]_vars

\* a walk has made at most as many iterations as its section has lines
WalkBounded == [](walk_pc # "section" => walk_steps <= Len(walk_lines))

\* a walk that has not returned has a step to take: the guards of
\* FindSection, of the two loop steps and of WalkReturn cover every state
\* but the last
WalkEnabled == walk_pc # "done"

\* the extractor runs on, no step of it is put off for ever: weak fairness
\* of WalkNext, with the enabling condition written out
SpecWalkFair == SpecWalk /\ ([]<>~WalkEnabled \/ []<><<WalkNext>>_vars)

\* C30: the walks of the education extractor and of the work-experience
\* extractor terminate on every document: every iteration moves the line
\* index forward by at least one, a walk has made at most as many
\* iterations as its section has lines, and every walk returns
WalksTerminate == WalkAdvances /\ WalkBounded /\ <>(walk_pc = "done")

\* C30: a walk has ended after one iteration for each line of a section
\* of MaxWalkLines lines, in either extractor
WalkedEveryLine ==
    /\ walk_pc = "done"
    /\ Len(walk_lines) = MaxWalkLines
    /\ walk_steps = Len(walk_lines)
    /\ walk_i = Len(walk_lines) + 1


\* the context window of a skill in the description that was parsed
WindowOf(skill) == Lower(GetSkillContext(Lower(req_description), skill))

-----------------------------------------------------------------------------
(* CVAnalyzer._analyze_skills_match: the keywords mined from the job
   description *)

\* more distinct words than _extract_job_keywords keeps
ManyWords == "go js ui ux qa ci cd db os vm ai ml bi hr pr ip tv pc id io ok no up so ad ex"

\* job descriptions: a beginning and an end
KeywordDescriptions ==
    {head \o " " \o tail :
        head \in {"Build APIs", "Senior front-end developer", "Node.js and C++",
                  "SQL, AWS", "python Python SQL", "Data-driven team", "the", ManyWords},
        tail \in {"", "with React", "for AWS", "and the REST API", "using Vue.js",
                  "on-site", "C++ or SQL"}}

KeywordsInit ==
    /\ kw_description \in KeywordDescriptions
    /\ kw_pc = "call"
    /\ kw_keywords = NoValue
    /\ ParseIdle /\ BatchIdle /\ ExperienceIdle /\ MentionIdle /\ RequirementsIdle
    /\ NameIdle /\ ScoreIdle /\ SharedInit /\ WalkIdle /\ YearsIdle

\* job_keywords = self._extract_job_keywords(job_description), with the
\* description that _analyze_skills_match has lower-cased
MineKeywords ==
    /\ kw_pc = "call"
    /\ kw_keywords' = [job_keywords |-> ExtractJobKeywords(Lower(kw_description))]
    /\ kw_pc' = "done"
    /\ UNCHANGED kw_description

KeywordsNext ==
    MineKeywords /\ UNCHANGED <<parseVars, batchVars, expVars, mentionVars, reqVars, nameVars, scoreVars, sharedVars, walkVars, yearsVars>>

SpecKeywords == KeywordsInit /\ [][KeywordsNext]_vars

\* the tokens of the description that are no stop words, most frequent
\* first, and those the pattern scan finds in the description as written
FrequentTokens ==
    LET Meaningful(word) == word \notin StopWords /\ Len(word) >= 2
    IN  MostCommon(SelectSeq(FindAll("token", Lower(kw_description), 1), Meaningful), TopKeywords)

ScannedTokens ==
    {Lower(m) : m \in UNION {Range(FindAll(TechPatterns[k], kw_description, 1)) :
                                 k \in DOMAIN TechPatterns}}

\* C25: the mined keywords are the at most 25 most frequent tokens of the
\* job description that are no stop words, and every token the pattern scan
\* finds; an acronym written in capitals in the description is a mined
\* keyword
KeywordsAreFrequentOrScanned ==
    kw_pc = "done" =>
        /\ kw_keywords.job_keywords = Range(FrequentTokens) \cup ScannedTokens
        /\ \A m \in Range(FindAll("acronym", kw_description, 1)) :
               Lower(m) \in kw_keywords.job_keywords

\* C25: an acronym written in capitals after more than 25 other words is
\* no mined keyword
AcronymNotMined ==
    /\ kw_pc = "done"
    /\ kw_description = ManyWords \o " for AWS"
    /\ Cardinality(kw_keywords.job_keywords) = TopKeywords
    /\ "aws" \notin kw_keywords.job_keywords


-----------------------------------------------------------------------------
(* NLPService._extract_experience_years *)

\* where years? or yrs? ends that starts at position i (0: it does not)
YearsWordEnd(text, i, word) ==
    IF ~OccursAt(word, text, i) THEN 0
    ELSE IF OccursAt("s", text, i + Len(word)) THEN i + Len(word)
    ELSE i + Len(word) - 1

\* the number whose digits start at position i
NumberAt(text, i) == StrToNat(SubSeq(text, i, RunEnd(text, i, Digits)))

\* the match of an experience pattern that starts at position i: where it
\* ends (0: no match starts at i) and the groups that are digits
\*   years  (\d+)[\+\-]?\s*years?\s*(of\s*)?(experience|exp)
\*   yrs    (\d+)[\+\-]?\s*yrs?\s*(of\s*)?(experience|exp)
\*   least  (minimum|min|at least)\s*(\d+)\s*years?
\*   to     (\d+)\s*to\s*(\d+)\s*years?
\*   dash   (\d+)\s*-\s*(\d+)\s*years?
NoMatch == [end |-> 0, numbers |-> <<>>]

ExperienceOfAt(text, i, word) ==
    LET d == RunEnd(text, i, Digits)
        sign == IF d + 1 <= Len(text) /\ CharAt(text, d + 1) \in {"+", "-"} THEN d + 1 ELSE d
        y == YearsWordEnd(text, SkipSpaces(text, sign + 1), word)
        e == SkipSpaces(text, y + 1)
        f == IF OccursAt("of", text, e) THEN SkipSpaces(text, e + 2) ELSE e
    IN  IF d < i \/ y = 0 THEN NoMatch
        ELSE IF OccursAt("experience", text, f)
        THEN [end |-> f + 9, numbers |-> <<NumberAt(text, i)>>]
        ELSE IF OccursAt("exp", text, f)
        THEN [end |-> f + 2, numbers |-> <<NumberAt(text, i)>>]
        ELSE NoMatch

AtLeastAt(text, i) ==
    LET prefix == IF OccursAt("minimum", text, i) THEN 7
                  ELSE IF OccursAt("min", text, i) THEN 3
                  ELSE IF OccursAt("at least", text, i) THEN 8
                  ELSE 0
        n == SkipSpaces(text, i + prefix)
        d == RunEnd(text, n, Digits)
        y == YearsWordEnd(text, SkipSpaces(text, d + 1), "year")
    IN  IF prefix = 0 \/ d < n \/ y = 0 THEN NoMatch
        ELSE [end |-> y, numbers |-> <<NumberAt(text, n)>>]

RangeOfYearsAt(text, i, sep) ==
    LET d == RunEnd(text, i, Digits)
        s == SkipSpaces(text, d + 1)
        n == SkipSpaces(text, s + Len(sep))
        m == RunEnd(text, n, Digits)
        y == YearsWordEnd(text, SkipSpaces(text, m + 1), "year")
    IN  IF d < i \/ ~OccursAt(sep, text, s) \/ m < n \/ y = 0 THEN NoMatch
        ELSE [end |-> y, numbers |-> <<NumberAt(text, i), NumberAt(text, n)>>]

ExperienceMatchAt(pattern, text, i) ==
    CASE pattern = "years" -> ExperienceOfAt(text, i, "year")
      [] pattern = "yrs" -> ExperienceOfAt(text, i, "yr")
      [] pattern = "least" -> AtLeastAt(text, i)
      [] pattern = "to" -> RangeOfYearsAt(text, i, "to")
      [] pattern = "dash" -> RangeOfYearsAt(text, i, "-")

\* self.experience_patterns, in order
experience_patterns == <<"years", "yrs", "least", "to", "dash">>

\* re.findall(pattern, text, re.IGNORECASE) on a lower-cased text: the
\* numbers of each match, from left to right
RECURSIVE FindExperience(_, _, _)
FindExperience(pattern, text, i) ==
    IF i > Len(text) THEN <<>>
    ELSE LET match == ExperienceMatchAt(pattern, text, i)
         IN  IF match.end >= i
             THEN <<match.numbers>> \o FindExperience(pattern, text, match.end + 1)
             ELSE FindExperience(pattern, text, i + 1)

\* the loop over the matches: the years after the matches up to the k-th
RECURSIVE YearsAfter(_, _)
YearsAfter(all_matches, k) ==
    IF k = 0 THEN [min_years |-> 0, max_years |-> None]
    ELSE LET before == YearsAfter(all_matches, k - 1)
             numbers == all_matches[k]
         IN  IF Len(numbers) >= 2
             THEN [min_years |-> Max(before.min_years, numbers[1]),
                   max_years |-> Some(numbers[2])]
             ELSE [min_years |-> Max(before.min_years, numbers[1]),
                   max_years |-> before.max_years]

\* the matches of all the patterns, pattern after pattern
RECURSIVE AllExperienceMatches(_, _)
AllExperienceMatches(text, p) ==
    IF p > Len(experience_patterns) THEN <<>>
    ELSE FindExperience(experience_patterns[p], text, 1) \o AllExperienceMatches(text, p + 1)

\* _extract_experience_years
ExtractExperienceYears(text) ==
    YearsAfter(AllExperienceMatches(text, 1), Len(AllExperienceMatches(text, 1)))

\* phrases of a job description about experience
ExperiencePhrases ==
    {"5 years of experience", "3+ Yrs exp", "minimum 2 years", "at least 10 years",
     "2 to 4 years", "1-3 years experience", "5 to 3 years", "12 years", "Python"}

\* job descriptions: one phrase, or two in either order
YearsDescriptions ==
    ExperiencePhrases \cup {a \o "; " \o b : a \in ExperiencePhrases, b \in ExperiencePhrases}

YearsInit ==
    /\ yrs_text \in YearsDescriptions
    /\ yrs_pc = "call"
    /\ yrs_result = NoValue
    /\ ParseIdle /\ BatchIdle /\ ExperienceIdle /\ MentionIdle /\ RequirementsIdle
    /\ NameIdle /\ ScoreIdle /\ SharedInit /\ WalkIdle /\ KeywordsIdle

\* min_years, max_years = self._extract_experience_years(text), with the
\* description that parse_job_requirements has lower-cased
ExtractYears ==
    /\ yrs_pc = "call"
    /\ yrs_result' = ExtractExperienceYears(Lower(yrs_text))
    /\ yrs_pc' = "done"
    /\ UNCHANGED yrs_text

YearsNext ==
    ExtractYears /\ UNCHANGED <<parseVars, batchVars, expVars, mentionVars, reqVars, nameVars, scoreVars, sharedVars, walkVars, keywordVars>>

SpecYears == YearsInit /\ [][YearsNext]_vars

\* C26: when the parsed max_experience_years is set it is not below the
\* parsed min_experience_years, whatever phrases about experience the job
\* description has and in whatever order
MaxYearsNotBelowMin ==
    yrs_pc = "done" /\ yrs_result.max_years.some =>
        yrs_result.min_years <= yrs_result.max_years.v

\* C26: a description that asks for at least 10 years and for 2 to 4 years
\* is parsed to a minimum of 10 and a maximum of 4
MaxYearsBelowMin ==
    /\ yrs_pc = "done"
    /\ yrs_text = "at least 10 years; 2 to 4 years"
    /\ yrs_result = [min_years |-> 10, max_years |-> Some(4)]


-----------------------------------------------------------------------------
(* CVAnalyzer._analyze_single_candidate: matched and missing skills *)

\* the required skills of the job and the technical skills of the
\* candidate, lower-cased
RequiredLowered == Range(LowerAll(score_job.required_skills))

CandidateSkillsLowered ==
    Range(LowerAll(ExtractCandidateInfo(score_candidate).val.technical_skills))

\* C27: in every result of an analysis that succeeded, matched_skills and
\* missing_skills have no skill in common, every required skill of the job,
\* lower-cased, is in exactly one of the two, and a required skill that is
\* in matched_skills is among the technical skills of the candidate or
\* occurs in the text of the resume
RequiredSkillsMatchedOrMissing ==
    score_pc = "done" /\ score_result.ok =>
        /\ score_result.val.matched_skills \cap Range(score_result.val.missing_skills) = {}
        /\ \A skill \in RequiredLowered :
               /\ skill \in score_result.val.matched_skills
                      <=> skill \notin Range(score_result.val.missing_skills)
               /\ skill \in score_result.val.matched_skills =>
                      \/ skill \in CandidateSkillsLowered
                      \/ IsSubstring(skill, Lower(score_candidate.raw_text))

\* C27: an analysis has returned with a required skill matched from the
\* candidate's technical skills alone, the text of the resume not having it
MatchedBySkillListAlone ==
    /\ score_pc = "done" /\ score_result.ok
    /\ \E skill \in RequiredLowered :
           /\ skill \in score_result.val.matched_skills
           /\ skill \notin Range(score_result.val.missing_skills)
           /\ skill \in CandidateSkillsLowered
           /\ ~IsSubstring(skill, Lower(score_candidate.raw_text))


\* C28: a candidate whose experience meets the minimum of the job
\* (meets_minimum is true) does not receive the concern "Insufficient
\* relevant experience", whatever the minimum, 0 included
MeetsMinimumWithoutConcern ==
    score_pc = "done" /\ score_result.ok
            /\ score_result.val.experience_analysis.meets_minimum =>
        "Insufficient relevant experience" \notin Range(score_result.val.concerns)

\* C28: for a job that asks for no experience a candidate meets the
\* minimum, scores 40 for experience and receives the concern
NoMinimumButConcern ==
    /\ score_pc = "done" /\ score_result.ok
    /\ score_result.val.experience_analysis.min_required = 0
    /\ score_result.val.experience_analysis.meets_minimum
    /\ score_result.val.experience_match_score = 40 * 100
    /\ "Insufficient relevant experience" \in Range(score_result.val.concerns)


-----------------------------------------------------------------------------
(* get_analysis_statistics on the results of a batch *)

\* C29: in the statistics of the results of a non-empty batch shortlisted
\* and rejected add up to total, total is the number of candidates of the
\* batch, and every degraded result is one of the rejected
StatisticsPartitionBatch ==
    batch_pc = "summarized" /\ candidates # <<>> =>
        /\ statistics.shortlisted + statistics.rejected = statistics.total
        /\ statistics.total = Len(candidates)
        /\ \A i \in DOMAIN results :
               IsFailedAnalysis(results[i]) => results[i].match_status = "rejected"
        /\ statistics.rejected >=
               Cardinality({i \in DOMAIN results : IsFailedAnalysis(results[i])})

\* the statistics of a batch of two, one candidate shortlisted and the
\* other degraded: one shortlisted, one rejected, two in total
DegradedCountedAsRejected ==
    /\ batch_pc = "summarized"
    /\ Len(candidates) = MaxBatch
    /\ \E i, j \in DOMAIN results :
           /\ IsFailedAnalysis(results[i])
           /\ results[j].match_status = "shortlisted"
    /\ statistics.shortlisted = 1
    /\ statistics.rejected = MaxBatch - 1
    /\ statistics.total = MaxBatch

=============================================================================
